---- MODULE Spec2Model ----
(***************************************************************************)
(* draversal: the pattern-query engine (DictSearchQuery.py) and the        *)
(* path-addressed tree cursor as driven by the stored-tree tools           *)
(* (draversal_mcp/tools.py, draversal_mcp/storage.py).                     *)
(*                                                                         *)
(* Python values are tagged pairs <<tag, payload>>:                        *)
(*   <<"int", n>>, <<"str", s>>, <<"none", 0>>, <<"list", seq>>,           *)
(*   <<"dict", pairs>>.                                                    *)
(* A str is a sequence of one-character strings, so that joining,          *)
(* splitting and parsing of FlatKeys is computed and not assumed.  A dict  *)
(* is the sequence of its <<key, value>> items in insertion order, with    *)
(* distinct keys.                                                          *)
(***************************************************************************)
EXTENDS Integers, Sequences, FiniteSets, TLC

VARIABLES
    \* DictSearchQuery.execute
    data, query, support_wildcards, support_regex,
    pc, todo, flattened_data, matched_fields, query_keys_matched, result,
    \* reconstruct_item
    rkey, rres,
    \* DictSearchQuery.match
    mpat, mkey, mres,
    \* the tree store (storage.py) and its clock
    store, now,
    \* the last tool or cursor call: its name, arguments and outcome
    last,
    \* the number of successive next_item calls made from the root, or -1
    walk,
    \* a DictTraversal in memory
    t_root, t_path, t_current, scope,
    \* the load/mutate/save cycles in progress and the temporary file of the
    \* store
    cycle

execVars == <<data, query, support_wildcards, support_regex,
              pc, todo, flattened_data, matched_fields, query_keys_matched, result>>
reconVars == <<rkey, rres>>
matchVars == <<mpat, mkey, mres>>
toolVars == <<store, now, last, walk>>
cursorVars == <<t_root, t_path, t_current, scope>>
cycleVars == <<cycle>>
vars == <<execVars, reconVars, matchVars, toolVars, cursorVars, cycleVars>>

(***************************************************************************)
(* Values                                                                  *)
(***************************************************************************)
IntV(n) == <<"int", n>>
StrV(s) == <<"str", s>>
NoneV == <<"none", 0>>
ListV(s) == <<"list", s>>
DictV(p) == <<"dict", p>>

Tag(v) == v[1]
Payload(v) == v[2]
IsDict(v) == Tag(v) = "dict"
IsList(v) == Tag(v) = "list"

\* The characters the model's strings are made of, in ASCII order.
Alphabet == <<"!", "#", "$", "*", "-", ".", "/", "0", "1", "2", "3", "4",
              "5", "6", "7", "8", "9", "?", "[", "]", "a", "b", "c", "d",
              "e", "f", "g", "h", "i", "j", "k", "l", "m", "n", "o", "p",
              "q", "r", "s", "t", "u", "v", "w", "x", "y", "z">>

Ord(c) == CHOOSE i \in 1..Len(Alphabet) : Alphabet[i] = c

Digits == <<"0", "1", "2", "3", "4", "5", "6", "7", "8", "9">>

IsDigit(c) == \E i \in 1..Len(Digits) : Digits[i] = c

DigitVal(c) == (CHOOSE i \in 1..Len(Digits) : Digits[i] = c) - 1

SeqRange(s) == {s[i] : i \in 1..Len(s)}

Tail2(s, i) == SubSeq(s, i, Len(s))

\* str(i) for i >= 0
RECURSIVE IntToStr(_)
IntToStr(i) == IF i < 10 THEN <<Digits[i + 1]>>
               ELSE IntToStr(i \div 10) \o <<Digits[(i % 10) + 1]>>

\* int(s) for a string of decimal digits; "ValueError" otherwise
RECURSIVE DigitsToInt(_)
DigitsToInt(s) == IF Len(s) = 0 THEN 0
                  ELSE 10 * DigitsToInt(SubSeq(s, 1, Len(s) - 1)) + DigitVal(s[Len(s)])

ParseInt(s) == IF Len(s) > 0 /\ \A i \in 1..Len(s) : IsDigit(s[i])
               THEN <<"ok", DigitsToInt(s)>>
               ELSE <<"raise", "ValueError">>

\* s.split(c) for a one-character separator c
RECURSIVE Split(_, _)
Split(s, c) ==
    IF \A i \in 1..Len(s) : s[i] # c THEN <<s>>
    ELSE LET i == CHOOSE j \in 1..Len(s) : s[j] = c /\ \A k \in 1..(j - 1) : s[k] # c
         IN  <<SubSeq(s, 1, i - 1)>> \o Split(Tail2(s, i + 1), c)

\* s.strip(c)
RECURSIVE Strip(_, _)
Strip(s, c) == IF Len(s) > 0 /\ s[1] = c THEN Strip(Tail2(s, 2), c)
               ELSE IF Len(s) > 0 /\ s[Len(s)] = c THEN Strip(SubSeq(s, 1, Len(s) - 1), c)
               ELSE s

(***************************************************************************)
(* dict helpers (insertion-ordered items)                                  *)
(***************************************************************************)
Keys(p) == {p[i][1] : i \in 1..Len(p)}
HasKey(p, k) == \E i \in 1..Len(p) : p[i][1] = k
Get(p, k) == p[CHOOSE i \in 1..Len(p) : p[i][1] = k][2]

\* d[k] = v
Put(p, k, v) == IF HasKey(p, k)
                THEN [i \in 1..Len(p) |-> IF p[i][1] = k THEN <<k, v>> ELSE p[i]]
                ELSE Append(p, <<k, v>>)

\* d.update(q)
RECURSIVE Update(_, _)
Update(p, q) == IF Len(q) = 0 THEN p
                ELSE Update(Put(p, q[1][1], q[1][2]), Tail(q))

\* the mapping a dict denotes, order forgotten (dict equality)
AsMap(p) == [k \in Keys(p) |-> Get(p, k)]

(***************************************************************************)
(* flatten_dict                                                            *)
(***************************************************************************)
field_separator == "."
list_index_char == "#"

\* '#%s' % i
list_index_indicator(i) == <<list_index_char>> \o IntToStr(i)

\* a variant of AllDicts that an empty list does not pass
SomeDicts(s) == Len(s) > 0 /\ \A i \in 1..Len(s) : IsDict(s[i])

AllDicts(s) == \A i \in 1..Len(s) : IsDict(s[i])

RECURSIVE FlattenItems(_, _, _)
RECURSIVE FlattenList(_, _, _, _)
FlattenItems(p, parent_key, items) ==
    IF Len(p) = 0 THEN items
    ELSE LET k == p[1][1]
             v == p[1][2]
             new_key == IF Len(parent_key) > 0
                        THEN parent_key \o <<field_separator>> \o k
                        ELSE k
             items2 == IF IsDict(v)
                       THEN Update(items, FlattenItems(Payload(v), new_key, <<>>))
                       ELSE IF IsList(v) /\ AllDicts(Payload(v))
                       THEN FlattenList(Payload(v), new_key, 1, items)
                       ELSE Put(items, new_key, v)
         IN  FlattenItems(Tail(p), parent_key, items2)

FlattenList(s, new_key, i, items) ==
    IF i > Len(s) THEN items
    ELSE FlattenList(s, new_key, i + 1,
             Update(items,
                    FlattenItems(Payload(s[i]), new_key \o list_index_indicator(i - 1), <<>>)))

flatten_dict(d) == FlattenItems(Payload(d), <<>>, <<>>)

(***************************************************************************)
(* Regular expressions (re.compile(p).match(s)) over the syntax the        *)
(* patterns of this model use: literal characters, '.', a postfix '*' or   *)
(* '?' on one character, and the anchor '$'.  A quantifier with nothing to *)
(* repeat does not compile (re.error).                                     *)
(***************************************************************************)
IsQuantifier(c) == c = "*" \/ c = "?"

RegexCompiles(p) == Len(p) = 0 \/ ~IsQuantifier(p[1])

RegexCharMatch(pc1, c) == pc1 = "." \/ pc1 = c

\* whether p matches some prefix of s
RECURSIVE RegexMatch(_, _)
RegexMatch(p, s) ==
    IF Len(p) = 0 THEN TRUE
    ELSE IF Len(p) >= 2 /\ p[2] = "*"
    THEN \/ RegexMatch(Tail2(p, 3), s)
         \/ (Len(s) > 0 /\ RegexCharMatch(p[1], s[1]) /\ RegexMatch(p, Tail(s)))
    ELSE IF Len(p) >= 2 /\ p[2] = "?"
    THEN \/ RegexMatch(Tail2(p, 3), s)
         \/ (Len(s) > 0 /\ RegexCharMatch(p[1], s[1]) /\ RegexMatch(Tail2(p, 3), Tail(s)))
    ELSE IF p[1] = "$" THEN Len(s) = 0 /\ RegexMatch(Tail(p), s)
    ELSE Len(s) > 0 /\ RegexCharMatch(p[1], s[1]) /\ RegexMatch(Tail(p), Tail(s))

(***************************************************************************)
(* fnmatch.translate(p) matched with re.match: '*' any run, '?' one        *)
(* character, '[...]' a character class ('!' negates, 'x-y' a range, an    *)
(* unclosed '[' is literal), anchored at both ends.                        *)
(***************************************************************************)
\* the index of the ']' closing the class opened at p[1] = '[', or 0
RECURSIVE ClassScan(_, _)
ClassScan(p, j) == IF j > Len(p) THEN 0
                   ELSE IF p[j] = "]" THEN j
                   ELSE ClassScan(p, j + 1)

ClassEnd(p) ==
    LET j1 == IF Len(p) >= 2 /\ p[2] = "!" THEN 3 ELSE 2
        j2 == IF j1 <= Len(p) /\ p[j1] = "]" THEN j1 + 1 ELSE j1
    IN  ClassScan(p, j2)

InClassPositive(stuff, c) ==
    \/ \E i \in 1..Len(stuff) :
          /\ stuff[i] = c
          /\ ~(stuff[i] = "-" /\ 1 < i /\ i < Len(stuff))
    \/ \E i \in 2..(Len(stuff) - 1) :
          /\ stuff[i] = "-"
          /\ Ord(stuff[i - 1]) <= Ord(c)
          /\ Ord(c) <= Ord(stuff[i + 1])

InClass(stuff, c) == IF stuff[1] = "!" THEN ~InClassPositive(Tail(stuff), c)
                     ELSE InClassPositive(stuff, c)

RECURSIVE GlobMatch(_, _)
GlobMatch(p, s) ==
    IF Len(p) = 0 THEN Len(s) = 0
    ELSE IF p[1] = "*" THEN \E k \in 1..(Len(s) + 1) : GlobMatch(Tail(p), Tail2(s, k))
    ELSE IF p[1] = "?" THEN Len(s) > 0 /\ GlobMatch(Tail(p), Tail(s))
    ELSE IF p[1] = "[" /\ ClassEnd(p) # 0
    THEN /\ Len(s) > 0
         /\ InClass(SubSeq(p, 2, ClassEnd(p) - 1), s[1])
         /\ GlobMatch(Tail2(p, ClassEnd(p) + 1), Tail(s))
    ELSE Len(s) > 0 /\ p[1] = s[1] /\ GlobMatch(Tail(p), Tail(s))

(***************************************************************************)
(* DictSearchQuery.match and its classifiers.  An outcome is "true",       *)
(* "false" (any falsy value) or "raise".                                   *)
(***************************************************************************)
is_regex(query_key) ==
    Len(query_key) > 0 /\ query_key[1] = "/" /\ query_key[Len(query_key)] = "/"

is_wildcard(query_key) ==
    \/ "?" \in SeqRange(query_key)
    \/ "*" \in SeqRange(query_key)
    \/ ("[" \in SeqRange(query_key) /\ "]" \in SeqRange(query_key))

Truth(b) == IF b THEN "true" ELSE "false"

match_regex(query_key, new_key, sr) ==
    IF ~sr THEN "false"
    ELSE IF ~is_regex(query_key) THEN "false"
    ELSE IF ~RegexCompiles(Strip(query_key, "/")) THEN "raise"
    ELSE Truth(RegexMatch(Strip(query_key, "/"), new_key))

match_wildcards(query_key, new_key, sw) ==
    IF ~sw THEN "false"
    ELSE IF ~is_wildcard(query_key) THEN "false"
    ELSE Truth(GlobMatch(query_key, new_key))

\* a variant of match: the pattern is classified once and only the chosen
\* classifier decides
MatchExclusive(query_key, new_key, sw, sr) ==
    IF sr /\ is_regex(query_key) THEN match_regex(query_key, new_key, sr)
    ELSE IF sw /\ is_wildcard(query_key) THEN match_wildcards(query_key, new_key, sw)
    ELSE Truth(query_key = new_key)

match(query_key, new_key, sw, sr) ==
    LET r == match_regex(query_key, new_key, sr)
    IN  IF r # "false" THEN r
        ELSE LET w == match_wildcards(query_key, new_key, sw)
             IN  IF w # "false" THEN w
                 ELSE Truth(query_key = new_key)

(***************************************************************************)
(* DictSearchQuery.OPERATOR_MAP.  An operator applied to (leaf value,      *)
(* query value) gives "true", "false" (any falsy value) or "raise".        *)
(***************************************************************************)
op_eq == <<"e", "q">>
op_ge == <<"g", "e">>
op_gt == <<"g", "t">>
op_le == <<"l", "e">>
op_lt == <<"l", "t">>
op_ne == <<"n", "e">>
op_func == <<"f", "u", "n", "c">>
op_contains == <<"c", "o", "n", "t", "a", "i", "n", "s">>
op_is == <<"i", "s">>
op_in == <<"i", "n">>
op_type == <<"t", "y", "p", "e">>
op_exists == <<"e", "x", "i", "s", "t", "s">>
op_regex == <<"r", "e", "g", "e", "x">>

OPERATOR_MAP == {op_eq, op_ge, op_gt, op_le, op_lt, op_ne, op_func, op_contains, op_is, op_in, op_type, op_exists, op_regex}

\* Python's ordering of two values: "lt", "eq", "gt", or "raise" (TypeError)
\* when the two are not of one orderable type.
RECURSIVE Cmp(_, _)
RECURSIVE CmpSeq(_, _, _)
CmpSeq(a, b, chars) ==
    IF Len(a) = 0 /\ Len(b) = 0 THEN "eq"
    ELSE IF Len(a) = 0 THEN "lt"
    ELSE IF Len(b) = 0 THEN "gt"
    ELSE IF a[1] = b[1] THEN CmpSeq(Tail(a), Tail(b), chars)
    ELSE IF chars THEN (IF Ord(a[1]) < Ord(b[1]) THEN "lt" ELSE "gt")
    ELSE Cmp(a[1], b[1])

Cmp(v, q) ==
    IF Tag(v) = "int" /\ Tag(q) = "int"
    THEN (IF Payload(v) < Payload(q) THEN "lt"
          ELSE IF Payload(v) = Payload(q) THEN "eq" ELSE "gt")
    ELSE IF Tag(v) = "str" /\ Tag(q) = "str" THEN CmpSeq(Payload(v), Payload(q), TRUE)
    ELSE IF Tag(v) = "list" /\ Tag(q) = "list" THEN CmpSeq(Payload(v), Payload(q), FALSE)
    ELSE "raise"

Ordering(v, q, accepted) ==
    IF Cmp(v, q) = "raise" THEN "raise" ELSE Truth(Cmp(v, q) \in accepted)

IsSubstring(a, b) ==
    \E i \in 1..(Len(b) - Len(a) + 1) : SubSeq(b, i, i + Len(a) - 1) = a

\* item in container
Contains(container, item) ==
    IF Tag(container) = "str"
    THEN (IF Tag(item) = "str" THEN Truth(IsSubstring(Payload(item), Payload(container)))
          ELSE "raise")
    ELSE IF Tag(container) = "list"
    THEN Truth(\E i \in 1..Len(Payload(container)) : Payload(container)[i] = item)
    ELSE IF Tag(container) = "dict"
    THEN (IF Tag(item) \in {"list", "dict"} THEN "raise"
          ELSE Truth(HasKey(Payload(container), Payload(item))))
    ELSE "raise"

TypeName(v) ==
    IF Tag(v) = "int" THEN <<"i", "n", "t">>
    ELSE IF Tag(v) = "str" THEN <<"s", "t", "r">>
    ELSE IF Tag(v) = "list" THEN <<"l", "i", "s", "t">>
    ELSE IF Tag(v) = "dict" THEN <<"d", "i", "c", "t">>
    ELSE IF Tag(v) = "func" THEN <<"f", "u", "n", "c", "t", "i", "o", "n">>
    ELSE <<"N", "o", "n", "e", "T", "y", "p", "e">>

\* the predicates a query may carry as <<"func", name>>
CallFunc(name, v) == IF name = "is_one" THEN Truth(v = IntV(1)) ELSE "raise"

RegexOperator(v, q) ==
    IF Tag(q) # "str" THEN "raise"
    ELSE IF ~RegexCompiles(Payload(q)) THEN "raise"
    ELSE IF Tag(v) # "str" THEN "raise"
    ELSE Truth(RegexMatch(Payload(q), Payload(v)))

Apply(operator, v, q) ==
    IF operator = op_eq THEN Truth(v = q)
    ELSE IF operator = op_ne THEN Truth(v # q)
    ELSE IF operator = op_ge THEN Ordering(v, q, {"gt", "eq"})
    ELSE IF operator = op_gt THEN Ordering(v, q, {"gt"})
    ELSE IF operator = op_le THEN Ordering(v, q, {"lt", "eq"})
    ELSE IF operator = op_lt THEN Ordering(v, q, {"lt"})
    ELSE IF operator = op_func
    THEN (IF Tag(q) = "func" THEN CallFunc(Payload(q), v) ELSE "raise")
    ELSE IF operator = op_contains THEN Contains(v, q)
    ELSE IF operator = op_is
    \* identity: equal small ints and None are one object; a leaf str or list
    \* is taken to be another object than the query's
    THEN Truth(v = q /\ Tag(v) \in {"int", "none"})
    ELSE IF operator = op_in THEN Contains(q, v)
    ELSE IF operator = op_type
    THEN Truth(Tag(q) = "str" /\ TypeName(v) = Payload(q))
    ELSE IF operator = op_exists THEN "true"
    ELSE RegexOperator(v, q)

operate(operator, field, flat, q) ==
    IF ~HasKey(flat, field) THEN "false"
    ELSE IF operator \notin OPERATOR_MAP THEN "false"
    ELSE Apply(operator, Get(flat, field), q)

(***************************************************************************)
(* reconstruct_item(query_key, item), default separators '.' and '#'.      *)
(* The outcome is <<"ok", container>> or <<"raise", exception>>.           *)
(***************************************************************************)
\* item[key] for a str key
GetItemStr(item, key) ==
    IF Tag(item) = "dict"
    THEN (IF HasKey(Payload(item), key) THEN <<"ok", Get(Payload(item), key)>>
          ELSE <<"raise", "KeyError">>)
    ELSE <<"raise", "TypeError">>

\* item[idx] for an int idx >= 0
GetItemInt(item, idx) ==
    IF Tag(item) = "list"
    THEN (IF idx < Len(Payload(item)) THEN <<"ok", Payload(item)[idx + 1]>>
          ELSE <<"raise", "IndexError">>)
    ELSE IF Tag(item) = "str"
    THEN (IF idx < Len(Payload(item)) THEN <<"ok", StrV(<<Payload(item)[idx + 1]>>)>>
          ELSE <<"raise", "IndexError">>)
    ELSE IF Tag(item) = "dict" THEN <<"raise", "KeyError">>
    ELSE <<"raise", "TypeError">>

\* line 71: idx = int(key_parts[1]) if len(key_main) > 1 else None
\* <<"ok", <<"some", n>>>>, <<"ok", <<"none", 0>>>> or <<"raise", e>>
SegmentIndex(key_parts) ==
    IF Len(key_parts[1]) > 1
    THEN (IF Len(key_parts) < 2 THEN <<"raise", "IndexError">>
          ELSE IF ParseInt(key_parts[2])[1] = "raise" THEN ParseInt(key_parts[2])
          ELSE <<"ok", <<"some", ParseInt(key_parts[2])[2]>>>>)
    ELSE <<"ok", <<"none", 0>>>>

RECURSIVE ReconstructLoop(_, _)
ReconstructLoop(segs, item) ==
    IF Len(segs) = 0 THEN <<"ok", item>>
    ELSE LET key_parts == Split(segs[1], list_index_char)
             key_main == key_parts[1]
             idx == SegmentIndex(key_parts)
         IN  IF idx[1] = "raise" THEN idx
             ELSE LET sub == GetItemStr(item, key_main)
                  IN  IF sub[1] = "raise" THEN sub
                      ELSE IF idx[2][1] = "none" THEN ReconstructLoop(Tail(segs), sub[2])
                      ELSE LET el == GetItemInt(sub[2], idx[2][2])
                           IN  IF el[1] = "raise" THEN el
                               ELSE ReconstructLoop(Tail(segs), el[2])

AllButLast(s) == SubSeq(s, 1, Len(s) - 1)

reconstruct_item(query_key, item) ==
    ReconstructLoop(AllButLast(Split(query_key, field_separator)), item)

(***************************************************************************)
(* DictSearchQuery.execute, one step per statement group:                  *)
(* lines 302-304 (ExecStart), one pass of the loop of line 305 per         *)
(* declared pattern-key (ExecKey), lines 313-315 (ExecReturn).             *)
(***************************************************************************)
\* lines 306-308
\* a variant of q_key_main that cuts the pattern-key at its last '$'
QKeyMainToLast(q_key) ==
    IF Len(Split(q_key, "$")) = 1 THEN q_key
    ELSE SubSeq(q_key, 1, Len(q_key) - Len(Split(q_key, "$")[Len(Split(q_key, "$"))]) - 1)

q_key_main(q_key) == Split(q_key, "$")[1]
\* a variant that takes exists where the pattern-key names no operator
QOperatorExists(q_key) ==
    IF Len(Split(q_key, "$")) > 1 THEN Split(q_key, "$")[2] ELSE op_exists

q_operator(q_key) == IF Len(Split(q_key, "$")) > 1 THEN Split(q_key, "$")[2] ELSE op_eq

\* lines 309-312 for one pattern-key: <<status, matched_fields, hit>>
RECURSIVE ScanKey(_, _, _, _, _, _, _, _)
ScanKey(flat, i, q_key, q_value, sw, sr, mf, hit) ==
    IF i > Len(flat) THEN <<"ok", mf, hit>>
    ELSE LET new_key == flat[i][1]
             value == flat[i][2]
             m == match(q_key_main(q_key), new_key, sw, sr)
             o == operate(q_operator(q_key), new_key, flat, q_value)
         IN  IF m = "raise" THEN <<"raise", mf, hit>>
             ELSE IF m = "false" THEN ScanKey(flat, i + 1, q_key, q_value, sw, sr, mf, hit)
             ELSE IF o = "raise" THEN <<"raise", mf, hit>>
             ELSE IF o = "false" THEN ScanKey(flat, i + 1, q_key, q_value, sw, sr, mf, hit)
             ELSE ScanKey(flat, i + 1, q_key, q_value, sw, sr, Put(mf, new_key, value), TRUE)

\* a variant of ExecuteResult: a plain filter, partial results are kept
ExecuteResultFilter(matched, declared, mf) == mf

\* a variant of ExecuteResult: the matches are returned as soon as one declared
\* pattern-key has matched
ExecuteResultAny(matched, declared, mf) == IF matched # {} THEN mf ELSE <<>>

\* lines 313-315
ExecuteResult(matched, declared, mf) == IF matched = declared THEN mf ELSE <<>>

ExecStart ==
    /\ pc = "start"
    /\ pc' = "loop"
    /\ todo' = query
    /\ flattened_data' = flatten_dict(data)
    /\ matched_fields' = <<>>
    /\ query_keys_matched' = {}
    /\ UNCHANGED <<data, query, support_wildcards, support_regex, result, cycleVars>>
    /\ UNCHANGED <<reconVars, matchVars, toolVars, cursorVars, cycleVars>>

ExecKey ==
    /\ pc = "loop"
    /\ Len(todo) > 0
    /\ LET q_key == todo[1][1]
           q_value == todo[1][2]
           r == ScanKey(flattened_data, 1, q_key, q_value,
                        support_wildcards, support_regex, matched_fields, FALSE)
       IN  /\ pc' = IF r[1] = "raise" THEN "raised" ELSE "loop"
           /\ matched_fields' = r[2]
           /\ query_keys_matched' =
                  IF r[3] THEN query_keys_matched \cup {q_key} ELSE query_keys_matched
    /\ todo' = Tail(todo)
    /\ UNCHANGED <<data, query, support_wildcards, support_regex, flattened_data, result, cycleVars>>
    /\ UNCHANGED <<reconVars, matchVars, toolVars, cursorVars, cycleVars>>

ExecReturn ==
    /\ pc = "loop"
    /\ Len(todo) = 0
    /\ pc' = "done"
    /\ result' = ExecuteResult(query_keys_matched, Keys(query), matched_fields)
    /\ UNCHANGED <<data, query, support_wildcards, support_regex,
                   todo, flattened_data, matched_fields, query_keys_matched, cycleVars>>
    /\ UNCHANGED <<reconVars, matchVars, toolVars, cursorVars, cycleVars>>

(***************************************************************************)
(* Trees.  A node is a dict; its children are the list it holds under the  *)
(* children field.  A path is the sequence of zero-based child indices     *)
(* that leads from the root to a node.                                     *)
(***************************************************************************)
sections == <<"s", "e", "c", "t", "i", "o", "n", "s">>
title == <<"t", "i", "t", "l", "e">>

\* the value that stands for Python's None where a path is expected
NonePath == <<-1>>

\* item.get(children_field, []) when that is a list
ChildrenOf(node, cf) ==
    IF IsDict(node) /\ HasKey(Payload(node), cf) /\ IsList(Get(Payload(node), cf))
    THEN Payload(Get(Payload(node), cf))
    ELSE <<>>

RECURSIVE ValidPath(_, _, _)
ValidPath(node, cf, path) ==
    IF Len(path) = 0 THEN TRUE
    ELSE /\ Head(path) >= 0
         /\ Head(path) < Len(ChildrenOf(node, cf))
         /\ ValidPath(ChildrenOf(node, cf)[Head(path) + 1], cf, Tail(path))

\* the node a valid path denotes
RECURSIVE ItemAt(_, _, _)
ItemAt(node, cf, path) ==
    IF Len(path) = 0 THEN node
    ELSE ItemAt(ChildrenOf(node, cf)[Head(path) + 1], cf, Tail(path))

\* the tree with the node at a valid path replaced: what an in-place change
\* of that node looks like from the root, which shares the node
RECURSIVE ReplaceAt(_, _, _, _)
ReplaceAt(node, cf, path, new) ==
    IF Len(path) = 0 THEN new
    ELSE LET kids == ChildrenOf(node, cf)
             i == Head(path) + 1
         IN DictV(Put(Payload(node), cf,
                      ListV([kids EXCEPT ![i] = ReplaceAt(kids[i], cf, Tail(path), new)])))

RemoveAt(s, i) == SubSeq(s, 1, i - 1) \o SubSeq(s, i + 1, Len(s))

\* every path of the tree, in pre-order (a node before its children, the
\* children in list order)
RECURSIVE PreOrderFrom(_, _, _, _)
PreOrderFrom(node, cf, path, i) ==
    IF i > Len(ChildrenOf(node, cf)) THEN <<>>
    ELSE <<path \o <<i - 1>> >>
         \o PreOrderFrom(ChildrenOf(node, cf)[i], cf, path \o <<i - 1>>, 1)
         \o PreOrderFrom(node, cf, path, i + 1)

PreOrder(root, cf) == << <<>> >> \o PreOrderFrom(root, cf, <<>>, 1)

(***************************************************************************)
(* DictTraversal: the cursor over a tree.  t.root is the tree, t.path the  *)
(* path of the cursor and t.current the node the cursor is on.  A call     *)
(* that can raise returns [ok, t, ...] with t the cursor as the call       *)
(* leaves it.                                                              *)
(***************************************************************************)
DictTraversal(d) == [root |-> d, path |-> <<>>, current |-> d]

get_item_by_path(t, cf, path) ==
    IF ValidPath(t.root, cf, path)
    THEN [ok |-> TRUE, item |-> ItemAt(t.root, cf, path)]
    ELSE [ok |-> FALSE, item |-> NoneV]

\* a variant that moves along the path index by index and stops at the first
\* index that is out of range
RECURSIVE ValidPrefix(_, _, _)
ValidPrefix(node, cf, path) ==
    IF Len(path) = 0 \/ ~ValidPath(node, cf, <<Head(path)>>) THEN <<>>
    ELSE <<Head(path)>> \o ValidPrefix(ChildrenOf(node, cf)[Head(path) + 1], cf, Tail(path))

SetPathStepwise(t, cf, path) ==
    [ok |-> ValidPath(t.root, cf, path),
     t |-> [t EXCEPT !.path = ValidPrefix(t.root, cf, path),
                     !.current = ItemAt(t.root, cf, ValidPrefix(t.root, cf, path))]]

set_path_as_current(t, cf, path) ==
    IF ValidPath(t.root, cf, path)
    THEN [ok |-> TRUE, t |-> [t EXCEPT !.path = path, !.current = ItemAt(t.root, cf, path)]]
    ELSE [ok |-> FALSE, t |-> t]

\* the next sibling of the nearest node, from path upwards, that has one
RECURSIVE NextUp(_, _, _)
NextUp(root, cf, path) ==
    IF Len(path) = 0 THEN NonePath
    ELSE LET parent == AllButLast(path)
             i == path[Len(path)]
         IN IF i + 1 < Len(ChildrenOf(ItemAt(root, cf, parent), cf))
            THEN parent \o <<i + 1>>
            ELSE NextUp(root, cf, parent)

NextPath(root, cf, path, sibling_only) ==
    IF sibling_only
    THEN IF Len(path) > 0
            /\ path[Len(path)] + 1 < Len(ChildrenOf(ItemAt(root, cf, AllButLast(path)), cf))
         THEN AllButLast(path) \o <<path[Len(path)] + 1>>
         ELSE NonePath
    ELSE IF Len(ChildrenOf(ItemAt(root, cf, path), cf)) > 0
         THEN path \o <<0>>
         ELSE NextUp(root, cf, path)

\* the last node of the subtree at path, in pre-order
RECURSIVE LastUnder(_, _, _)
LastUnder(root, cf, path) ==
    LET n == Len(ChildrenOf(ItemAt(root, cf, path), cf))
    IN IF n = 0 THEN path ELSE LastUnder(root, cf, path \o <<n - 1>>)

PrevPath(root, cf, path, sibling_only) ==
    IF Len(path) = 0 THEN NonePath
    ELSE LET parent == AllButLast(path)
             i == path[Len(path)]
         IN IF i = 0 THEN (IF sibling_only THEN NonePath ELSE parent)
            ELSE IF sibling_only THEN parent \o <<i - 1>>
            ELSE LastUnder(root, cf, parent \o <<i - 1>>)

ItemAndPath(root, cf, path) ==
    [item |-> IF path = NonePath THEN NoneV ELSE ItemAt(root, cf, path), path |-> path]

get_next_item_and_path(t, cf, sibling_only) ==
    ItemAndPath(t.root, cf, NextPath(t.root, cf, t.path, sibling_only))

get_previous_item_and_path(t, cf, sibling_only) ==
    ItemAndPath(t.root, cf, PrevPath(t.root, cf, t.path, sibling_only))

\* the cursor after an in-place change of the current node to new
WithCurrent(t, cf, new) ==
    [root |-> ReplaceAt(t.root, cf, t.path, new), path |-> t.path, current |-> new]

\* traversal.modify(**changes)
modify(t, cf, changes) ==
    WithCurrent(t, cf, DictV(Update(Payload(t.current), changes)))

\* traversal.add_child(**item)
add_child(t, cf, item) ==
    WithCurrent(t, cf, DictV(Put(Payload(t.current), cf,
                                 ListV(Append(ChildrenOf(t.current, cf), item)))))

\* del traversal[path], the path counted from the current node
delitem(t, cf, path) ==
    IF Len(path) = 0 \/ ~ValidPath(t.current, cf, path) THEN [ok |-> FALSE, t |-> t]
    ELSE LET parent == ItemAt(t.current, cf, AllButLast(path))
             kids == RemoveAt(ChildrenOf(parent, cf), path[Len(path)] + 1)
             new == DictV(Put(Payload(parent), cf, ListV(kids)))
         IN [ok |-> TRUE,
             t |-> WithCurrent(t, cf, ReplaceAt(t.current, cf, AllButLast(path), new))]

InsertAt(s, i, e) == SubSeq(s, 1, i - 1) \o <<e>> \o SubSeq(s, i, Len(s))

\* traversal.insert_child(index, **item): the item is put at position index
\* of the current node's children and the later children move up by one
insert_child(t, cf, index, item) ==
    IF index < 0 \/ index > Len(ChildrenOf(t.current, cf)) THEN [ok |-> FALSE, t |-> t]
    ELSE [ok |-> TRUE,
          t |-> WithCurrent(t, cf,
                   DictV(Put(Payload(t.current), cf,
                             ListV(InsertAt(ChildrenOf(t.current, cf), index + 1, item)))))]

\* traversal.replace_child(index, **item): the child at index is overwritten
replace_child(t, cf, index, item) ==
    IF index < 0 \/ index >= Len(ChildrenOf(t.current, cf)) THEN [ok |-> FALSE, t |-> t]
    ELSE [ok |-> TRUE,
          t |-> WithCurrent(t, cf,
                   DictV(Put(Payload(t.current), cf,
                             ListV([ChildrenOf(t.current, cf) EXCEPT ![index + 1] = item]))))]

\* a variant that takes the last child with the label
RECURSIVE LastLabelled(_, _, _, _)
LastLabelled(kids, lf, label, i) ==
    LET later == IF i > Len(kids) THEN 0 ELSE LastLabelled(kids, lf, label, i + 1)
    IN IF later # 0 \/ i > Len(kids) THEN later
       ELSE IF IsDict(kids[i]) /\ HasKey(Payload(kids[i]), lf) /\ Get(Payload(kids[i]), lf) = label
            THEN i ELSE 0

\* the index of the first child from position i on whose label is the given
\* one, or 0 when there is none
RECURSIVE FirstLabelled(_, _, _, _)
FirstLabelled(kids, lf, label, i) ==
    IF i > Len(kids) THEN 0
    ELSE IF IsDict(kids[i]) /\ HasKey(Payload(kids[i]), lf) /\ Get(Payload(kids[i]), lf) = label
         THEN i
         ELSE FirstLabelled(kids, lf, label, i + 1)

\* the walk of find_paths from node, which is at path: one title per level
RECURSIVE FindFrom(_, _, _, _, _)
FindFrom(node, cf, lf, titles, path) ==
    LET i == FirstLabelled(ChildrenOf(node, cf), lf, StrV(Head(titles)), 1)
    IN IF i = 0 THEN <<>>
       ELSE IF Len(titles) = 1
            THEN << <<ChildrenOf(node, cf)[i], path \o <<i - 1>> >> >>
            ELSE FindFrom(ChildrenOf(node, cf)[i], cf, lf, Tail(titles), path \o <<i - 1>>)

\* traversal.find_paths(label_field, titles): the (item, path) pairs found
find_paths(t, cf, lf, titles) ==
    IF Len(titles) = 0 THEN <<>> ELSE FindFrom(t.root, cf, lf, titles, <<>>)

\* a whole-tree read that fetches the value of every root key with
\* __getitem__, which answers from the current node
DictView(t) ==
    LET rootItems == Payload(t.root)
    IN DictV([i \in 1..Len(rootItems) |->
                 <<rootItems[i][1],
                   IF HasKey(Payload(t.current), rootItems[i][1])
                   THEN Get(Payload(t.current), rootItems[i][1])
                   ELSE NoneV>>])

\* a variant that builds the whole tree by item access
DataThroughItemAccess(t) == DictView(t)

\* traversal.data: the content of the root
DataOf(t) == t.root

\* traversal[key]
GetItem(t, key) == Get(Payload(t.current), key)

\* traversal.items(): the items of the root dict itself
ItemsOf(t) == Payload(t.root)

(***************************************************************************)
(* storage.py: the tree store, a map from tree id to entry                 *)
(***************************************************************************)
RECURSIVE count_nodes(_, _)
RECURSIVE CountList(_, _, _)
CountList(kids, cf, i) ==
    IF i > Len(kids) THEN 0 ELSE count_nodes(kids[i], cf) + CountList(kids, cf, i + 1)

\* a variant that counts the item and its children and no node below them
CountToChildren(item, cf) ==
    IF ~IsDict(item) THEN 0 ELSE 1 + Len(ChildrenOf(item, cf))

count_nodes(item, cf) ==
    IF ~IsDict(item) THEN 0 ELSE 1 + CountList(ChildrenOf(item, cf), cf, 1)

RECURSIVE LabelsOf(_, _, _)
LabelsOf(kids, lf, i) ==
    IF i > Len(kids) THEN <<>>
    ELSE (IF IsDict(kids[i]) /\ HasKey(Payload(kids[i]), lf)
          THEN <<Get(Payload(kids[i]), lf)>> ELSE <<>>)
         \o LabelsOf(kids, lf, i + 1)

top_labels(item, cf, lf) ==
    IF Len(lf) = 0 \/ ~IsDict(item) THEN <<>> ELSE LabelsOf(ChildrenOf(item, cf), lf, 1)

\* a variant that writes every entry as a new one
SaveAsNew(st, clock, d, cf, lf, tree_id, schema) ==
    [i \in DOMAIN st \cup {tree_id} |->
        IF i = tree_id
        THEN [tree_id |-> tree_id, data |-> d, children_field |-> cf, label_field |-> lf,
              count |-> count_nodes(d, cf), top_labels |-> top_labels(d, cf, lf),
              cursor_path |-> <<>>, schema |-> schema,
              created_at |-> clock, updated_at |-> clock]
        ELSE st[i]]

\* save_tree under a given tree id at time clock
storage_save_tree(st, clock, d, cf, lf, tree_id, schema) ==
    LET existing == tree_id \in DOMAIN st
        entry == [tree_id |-> tree_id,
                  data |-> d,
                  children_field |-> cf,
                  label_field |-> lf,
                  count |-> count_nodes(d, cf),
                  top_labels |-> top_labels(d, cf, lf),
                  cursor_path |-> IF existing THEN st[tree_id].cursor_path ELSE <<>>,
                  schema |-> IF schema = NoneV /\ existing THEN st[tree_id].schema ELSE schema,
                  created_at |-> IF existing THEN st[tree_id].created_at ELSE clock,
                  updated_at |-> clock]
    IN [i \in DOMAIN st \cup {tree_id} |-> IF i = tree_id THEN entry ELSE st[i]]

storage_get_tree(st, tree_id) == st[tree_id]

storage_get_cursor(st, tree_id) == st[tree_id].cursor_path

\* a variant that stores the cursor by saving the entry again with the tree
\* read through the cursor's item access
SetCursorResave(st, tree_id, cursor_path) ==
    LET e == st[tree_id]
        t == set_path_as_current(DictTraversal(e.data), e.children_field, cursor_path).t
    IN [st EXCEPT ![tree_id].cursor_path = cursor_path, ![tree_id].data = DictView(t)]

storage_set_cursor(st, tree_id, cursor_path) ==
    [st EXCEPT ![tree_id].cursor_path = cursor_path]

(***************************************************************************)
(* tools.py: the stateless tools.  Each loads the entry, builds a cursor,  *)
(* acts and stores.  A tool returns [ok, store, item, path]: whether it    *)
(* returned or raised, the store it leaves, and the item and path it       *)
(* returns when it returns one.                                            *)
(***************************************************************************)
Raised(st) == [ok |-> FALSE, store |-> st, item |-> NoneV, path |-> NonePath]
Returned(st, item, path) == [ok |-> TRUE, store |-> st, item |-> item, path |-> path]

\* validate_data(data, children_field, label_field): the root holds a list
\* under the children field
validate_data(d, cf, lf) ==
    IsDict(d) /\ HasKey(Payload(d), cf) /\ IsList(Get(Payload(d), cf))

\* a schema that requires the given keys: {"required": [...]}.  The schema
\* of an entry is one of these or None
RequiredSchema(keys) == <<"schema", keys>>

\* the normalized schema gives the children field the items {"$ref": "#"}, so
\* the schema holds of a node when it holds of the node itself and of every
\* node of its children list
RECURSIVE SchemaHolds(_, _, _)
SchemaHolds(node, cf, required) ==
    IsDict(node) =>
       /\ required \subseteq Keys(Payload(node))
       /\ HasKey(Payload(node), cf) =>
             /\ IsList(Get(Payload(node), cf))
             /\ \A i \in 1..Len(ChildrenOf(node, cf)) :
                   SchemaHolds(ChildrenOf(node, cf)[i], cf, required)

\* _validate_tree_schema returns at once when there is no schema
validate_tree_schema(d, cf, schema) ==
    schema = NoneV \/ SchemaHolds(d, cf, Payload(schema))

validate_tree(entry, d) ==
    /\ validate_data(d, entry.children_field, entry.label_field)
    /\ validate_tree_schema(d, entry.children_field, entry.schema)

get_traversal(st, tree_id, path) ==
    LET entry == storage_get_tree(st, tree_id)
        traversal == DictTraversal(entry.data)
    IN IF path # NonePath
       THEN set_path_as_current(traversal, entry.children_field, path)
       ELSE [ok |-> TRUE, t |-> traversal]

\* a variant that reads the tree through the cursor's item access
TraversalDataView(t) == DictView(t)

\* data = {k: v for k, v in traversal.items()}
TraversalData(t) == DictV(ItemsOf(t))

\* a variant that stores the tree before it validates it
SaveThenValidate(st, clock, t, entry, tree_id) ==
    [ok |-> validate_tree(entry, DictV(ItemsOf(t))),
     store |-> storage_save_tree(st, clock, DictV(ItemsOf(t)), entry.children_field,
                                 entry.label_field, tree_id, entry.schema),
     item |-> NoneV, path |-> NonePath]

save_traversal(st, clock, t, entry, tree_id) ==
    LET d == TraversalData(t)
    IN IF validate_tree(entry, d)
       THEN Returned(storage_save_tree(st, clock, d, entry.children_field,
                                       entry.label_field, tree_id, entry.schema),
                     NoneV, NonePath)
       ELSE Raised(st)

tool_add_child(st, clock, tree_id, path, item) ==
    IF ~IsDict(item) \/ tree_id \notin DOMAIN st THEN Raised(st)
    ELSE LET g == get_traversal(st, tree_id, path)
             entry == storage_get_tree(st, tree_id)
         IN IF ~g.ok THEN Raised(st)
            ELSE save_traversal(st, clock, add_child(g.t, entry.children_field, item),
                                entry, tree_id)

\* modify_item(tree_id, path, changes=changes)
tool_modify_item(st, clock, tree_id, path, changes) ==
    IF tree_id \notin DOMAIN st THEN Raised(st)
    ELSE LET g == get_traversal(st, tree_id, path)
             entry == storage_get_tree(st, tree_id)
         IN IF ~g.ok \/ Len(changes) = 0 THEN Raised(st)
            ELSE save_traversal(st, clock, modify(g.t, entry.children_field, changes),
                                entry, tree_id)

tool_delete_child(st, clock, tree_id, path) ==
    IF Len(path) = 0 \/ tree_id \notin DOMAIN st THEN Raised(st)
    ELSE LET g == get_traversal(st, tree_id, NonePath)
             entry == storage_get_tree(st, tree_id)
             r == delitem(g.t, entry.children_field, path)
         IN IF ~r.ok THEN Raised(st)
            ELSE save_traversal(st, clock, r.t, entry, tree_id)

\* insert_child(tree_id, path, index, item)
tool_insert_child(st, clock, tree_id, path, index, item) ==
    IF ~IsDict(item) \/ tree_id \notin DOMAIN st THEN Raised(st)
    ELSE LET g == get_traversal(st, tree_id, path)
             entry == storage_get_tree(st, tree_id)
             r == insert_child(g.t, entry.children_field, index, item)
         IN IF ~g.ok \/ ~r.ok THEN Raised(st)
            ELSE save_traversal(st, clock, r.t, entry, tree_id)

\* a variant that moves the cursor to the path itself, not to its parent
ReplaceChildBelow(st, clock, tree_id, path, item) ==
    IF Len(path) = 0 \/ ~IsDict(item) \/ tree_id \notin DOMAIN st THEN Raised(st)
    ELSE LET g == get_traversal(st, tree_id, path)
             entry == storage_get_tree(st, tree_id)
             r == replace_child(g.t, entry.children_field, path[Len(path)], item)
         IN IF ~g.ok \/ ~r.ok THEN Raised(st)
            ELSE save_traversal(st, clock, r.t, entry, tree_id)

\* replace_child(tree_id, path, item): the cursor goes to path[:-1] and the
\* child at index path[-1] is replaced
tool_replace_child(st, clock, tree_id, path, item) ==
    IF Len(path) = 0 \/ ~IsDict(item) \/ tree_id \notin DOMAIN st THEN Raised(st)
    ELSE LET g == get_traversal(st, tree_id, AllButLast(path))
             entry == storage_get_tree(st, tree_id)
             r == replace_child(g.t, entry.children_field, path[Len(path)], item)
         IN IF ~g.ok \/ ~r.ok THEN Raised(st)
            ELSE save_traversal(st, clock, r.t, entry, tree_id)

\* traversal_find_paths(tree_id, titles): the list of the pairs found is in
\* the item of the result
tool_find_paths(st, tree_id, titles) ==
    IF tree_id \notin DOMAIN st THEN Raised(st)
    ELSE LET g == get_traversal(st, tree_id, NonePath)
             entry == storage_get_tree(st, tree_id)
         IN IF Len(entry.label_field) = 0 THEN Raised(st)
            ELSE Returned(st, find_paths(g.t, entry.children_field, entry.label_field, titles),
                          NonePath)

\* the body of the loop of apply_tree_ops for one op, a record [op, path,
\* item, changes], on the cursor t: [ok, t], ok FALSE when the op raises
ApplyOpOn(t, cf, op) ==
    LET fail == [ok |-> FALSE, t |-> t]
    IN CASE op.op = "add_child" ->
              LET g == set_path_as_current(t, cf, op.path)
              IN IF ~IsDict(op.item) \/ ~g.ok THEN fail
                 ELSE [ok |-> TRUE, t |-> add_child(g.t, cf, op.item)]
         [] op.op = "modify" ->
              LET g == set_path_as_current(t, cf, op.path)
              IN IF ~g.ok \/ Len(op.changes) = 0 THEN fail
                 ELSE [ok |-> TRUE, t |-> modify(g.t, cf, op.changes)]
         [] op.op = "replace_child" ->
              IF ~IsDict(op.item) \/ Len(op.path) = 0 THEN fail
              ELSE LET g == set_path_as_current(t, cf, AllButLast(op.path))
                   IN IF ~g.ok THEN fail
                      ELSE replace_child(g.t, cf, op.path[Len(op.path)], op.item)
         [] op.op = "delete_child" ->
              IF Len(op.path) = 0 THEN fail ELSE delitem(t, cf, op.path)
         [] OTHER -> fail

\* a variant that leaves the cursor where the op before left it
ApplyOpNoReset(t, cf, op) == ApplyOpOn(t, cf, op)

\* traversal.current = traversal; traversal.path = []; then the op
ApplyOp(t, cf, op) ==
    ApplyOpOn([t EXCEPT !.path = <<>>, !.current = t.root], cf, op)

\* a variant of the loop that stops at an op that raises and keeps what the
\* ops before it have done
RECURSIVE ApplyOpsKeepDone(_, _, _, _)
ApplyOpsKeepDone(t, cf, ops, i) ==
    IF i > Len(ops) THEN [ok |-> TRUE, t |-> t]
    ELSE LET r == ApplyOp(t, cf, ops[i])
         IN IF ~r.ok THEN [ok |-> TRUE, t |-> t] ELSE ApplyOpsKeepDone(r.t, cf, ops, i + 1)

\* the for loop over ops, from the i-th op on
RECURSIVE ApplyOps(_, _, _, _)
ApplyOps(t, cf, ops, i) ==
    IF i > Len(ops) THEN [ok |-> TRUE, t |-> t]
    ELSE LET r == ApplyOp(t, cf, ops[i])
         IN IF ~r.ok THEN r ELSE ApplyOps(r.t, cf, ops, i + 1)

tool_apply_tree_ops(st, clock, tree_id, ops) ==
    IF tree_id \notin DOMAIN st THEN Raised(st)
    ELSE LET entry == storage_get_tree(st, tree_id)
             r == ApplyOps(DictTraversal(entry.data), entry.children_field, ops, 1)
         IN IF ~r.ok THEN Raised(st)
            ELSE save_traversal(st, clock, r.t, entry, tree_id)

\* the tree_id argument that is None, and the id that uuid4 then gives at
\* time clock
NoTreeId == "none"
NewTreeId(clock) == IF clock = 0 THEN "u0" ELSE IF clock = 1 THEN "u1"
                    ELSE IF clock = 2 THEN "u2" ELSE "u3"

\* tools.save_tree(data, children_field, label_field, tree_id, schema=schema).
\* The path of the result holds nothing; its item is not used
tool_save_tree(st, clock, d, cf, lf, tree_id, schema) ==
    LET id == IF tree_id = NoTreeId THEN NewTreeId(clock) ELSE tree_id
        schema_to_use == IF tree_id # NoTreeId /\ schema = NoneV /\ tree_id \in DOMAIN st
                         THEN st[tree_id].schema
                         ELSE schema
    IN IF validate_data(d, cf, lf) /\ validate_tree_schema(d, cf, schema_to_use)
       THEN Returned(storage_save_tree(st, clock, d, cf, lf, id, schema_to_use),
                     NoneV, NonePath)
       ELSE Raised(st)

\* a variant that stores the path without looking it up in the tree
SetCursorUnchecked(st, tree_id, path) ==
    IF tree_id \notin DOMAIN st THEN Raised(st)
    ELSE Returned(storage_set_cursor(st, tree_id, path), NoneV, path)

tool_set_cursor(st, tree_id, path) ==
    IF tree_id \notin DOMAIN st THEN Raised(st)
    ELSE LET g == get_traversal(st, tree_id, NonePath)
             entry == storage_get_tree(st, tree_id)
         IN IF ~get_item_by_path(g.t, entry.children_field, path).ok THEN Raised(st)
            ELSE Returned(storage_set_cursor(st, tree_id, path), NoneV, path)

\* a variant that builds its cursor at the root instead of the stored cursor
PrevItemFromRoot(st, tree_id, sibling_only) ==
    LET g == get_traversal(st, tree_id, NonePath)
        r == get_previous_item_and_path(g.t, st[tree_id].children_field, sibling_only)
    IN Returned(storage_set_cursor(st, tree_id, r.path), r.item, r.path)

\* a variant that returns the next item without storing its path
NextItemNoStore(st, tree_id, sibling_only) ==
    LET g == get_traversal(st, tree_id, storage_get_cursor(st, tree_id))
        r == get_next_item_and_path(g.t, st[tree_id].children_field, sibling_only)
    IN IF ~g.ok THEN Raised(st) ELSE Returned(st, r.item, r.path)

tool_next_item(st, tree_id, sibling_only) ==
    IF tree_id \notin DOMAIN st THEN Raised(st)
    ELSE LET cursor_path == storage_get_cursor(st, tree_id)
             g == get_traversal(st, tree_id, cursor_path)
             r == get_next_item_and_path(g.t, st[tree_id].children_field, sibling_only)
         IN IF ~g.ok THEN Raised(st)
            ELSE Returned(storage_set_cursor(st, tree_id, r.path), r.item, r.path)

tool_prev_item(st, tree_id, sibling_only) ==
    IF tree_id \notin DOMAIN st THEN Raised(st)
    ELSE LET cursor_path == storage_get_cursor(st, tree_id)
             g == get_traversal(st, tree_id, cursor_path)
             r == get_previous_item_and_path(g.t, st[tree_id].children_field, sibling_only)
         IN IF ~g.ok THEN Raised(st)
            ELSE Returned(storage_set_cursor(st, tree_id, r.path), r.item, r.path)

(***************************************************************************)
(* Inputs                                                                  *)
(***************************************************************************)
MaxFields == 2
MaxQueryKeys == 2

TopNameSeq == << <<"a">>, <<"d">>, <<"a", "b">> >>

Leaf_bc1 == DictV(<< <<<<"b">>, DictV(<< <<<<"c">>, IntV(1)>> >>)>> >>)
List_e2_f3 == ListV(<< DictV(<< <<<<"e">>, IntV(2)>> >>), DictV(<< <<<<"f">>, IntV(3)>> >>) >>)

TopVals == {IntV(1), StrV(<<"x">>), Leaf_bc1, List_e2_f3, ListV(<<>>)}

\* the item sequences over names[i..] with at most n items, names in order
RECURSIVE ItemSeqs(_, _, _, _)
ItemSeqs(names, vals, i, n) ==
    IF n = 0 \/ i > Len(names) THEN {<<>>}
    ELSE ItemSeqs(names, vals, i + 1, n)
         \cup {<< <<names[i], v>> >> \o r : v \in vals, r \in ItemSeqs(names, vals, i + 1, n - 1)}

DataPool == {DictV(p) : p \in ItemSeqs(TopNameSeq, TopVals, 1, MaxFields)}

PatternKeySeq == <<
    <<"a", ".", "b", ".", "c">>,
    <<"x", ".", "y">>,
    <<"*">>,
    <<"/", ".", "*", "/">>,
    <<"d", "#", "0", ".", "e">>,
    <<"*", "$", "g", "t">>,
    <<"a", "$", "n", "e">>,
    <<"a", "$", "z", "z">> >>

QueryValues == {IntV(1), IntV(2)}

QueryPool == ItemSeqs(PatternKeySeq, QueryValues, 1, MaxQueryKeys)

MatchPatterns == {
    <<"/", ".", "*", "/">>,
    <<"/", "b", "*", "c", "/">>,
    <<"/", "a", "b", "/">>,
    <<"/", "*", "/">>,
    <<"[", "a", "]">>,
    <<"a", "*">>,
    <<"a", "?", "c">>,
    <<"a", ".", "b", ".", "c">>,
    <<"*">>,
    <<"a", "b">> }

MatchKeys == {
    <<"a", ".", "b", ".", "c">>,
    <<"d", "#", "0", ".", "e">>,
    <<"/", "b", "x", "c", "/">>,
    <<"/", "a", "b", "/">>,
    <<"[", "a", "]">>,
    <<"a">>,
    <<"a", "b">>,
    <<"a", "b", "c">> }

(***************************************************************************)
(* Specifications of the pure functions                                    *)
(***************************************************************************)
NoCall == [op |-> "none", tree_id |-> "", path |-> <<>>, sibling_only |-> FALSE,
           arg |-> DictV(<<>>), ok |-> TRUE, item |-> NoneV, ret_path |-> NonePath,
           cursor_before |-> <<>>, origin |-> NonePath]

NoCycle == <<>>

ToolIdle == store = <<>> /\ now = 0 /\ last = NoCall /\ walk = -1 /\ cycle = NoCycle

CursorIdle ==
    /\ t_root = DictV(<<>>) /\ t_path = <<>> /\ t_current = DictV(<<>>) /\ scope = <<>>

ExecIdle ==
    /\ data = DictV(<<>>) /\ query = <<>>
    /\ support_wildcards = TRUE /\ support_regex = TRUE
    /\ pc = "idle" /\ todo = <<>> /\ flattened_data = <<>>
    /\ matched_fields = <<>> /\ query_keys_matched = {} /\ result = <<>>

ReconIdle == rkey = <<>> /\ rres = <<"idle", 0>>

MatchIdle == mpat = <<>> /\ mkey = <<>> /\ mres = "idle"

\* DictSearchQuery(query).execute(data), wildcard and regex support on
InitExec ==
    /\ data \in DataPool
    /\ query \in QueryPool
    /\ support_wildcards = TRUE /\ support_regex = TRUE
    /\ pc = "start" /\ todo = <<>> /\ flattened_data = <<>>
    /\ matched_fields = <<>> /\ query_keys_matched = {} /\ result = <<>>
    /\ ReconIdle /\ MatchIdle
    /\ ToolIdle /\ CursorIdle

NextExec == ExecStart \/ ExecKey \/ ExecReturn

SpecExec == InitExec /\ [][NextExec]_vars

\* flatten_dict(data), the data drawn from field names of which one holds
\* the separator
FlatNameSeq == << <<"a">>, <<"d">>, <<"a", ".", "b", ".", "c">> >>

FlatPool == {DictV(p) : p \in ItemSeqs(FlatNameSeq, TopVals, 1, MaxFields)}

Flatten ==
    /\ pc = "start"
    /\ pc' = "flat"
    /\ flattened_data' = flatten_dict(data)
    /\ UNCHANGED <<data, query, support_wildcards, support_regex, todo,
                   matched_fields, query_keys_matched, result, cycleVars>>
    /\ UNCHANGED <<reconVars, matchVars, toolVars, cursorVars, cycleVars>>

InitFlatten ==
    /\ data \in FlatPool
    /\ query = <<>>
    /\ support_wildcards = TRUE /\ support_regex = TRUE
    /\ pc = "start" /\ todo = <<>> /\ flattened_data = <<>>
    /\ matched_fields = <<>> /\ query_keys_matched = {} /\ result = <<>>
    /\ ReconIdle /\ MatchIdle
    /\ ToolIdle /\ CursorIdle

NextFlatten == Flatten

SpecFlatten == InitFlatten /\ [][NextFlatten]_vars

\* reconstruct_item(k, d) for a FlatKey k of flatten_dict(d)
Reconstruct ==
    /\ rres[1] = "idle"
    /\ \E k \in Keys(flatten_dict(data)) :
          /\ rkey' = k
          /\ rres' = reconstruct_item(k, data)
    /\ UNCHANGED <<execVars, matchVars, toolVars, cursorVars, cycleVars>>

InitRecon ==
    /\ data \in DataPool
    /\ query = <<>>
    /\ support_wildcards = TRUE /\ support_regex = TRUE
    /\ pc = "idle" /\ todo = <<>> /\ flattened_data = <<>>
    /\ matched_fields = <<>> /\ query_keys_matched = {} /\ result = <<>>
    /\ ReconIdle /\ MatchIdle
    /\ ToolIdle /\ CursorIdle

NextRecon == Reconstruct

SpecRecon == InitRecon /\ [][NextRecon]_vars

\* DictSearchQuery(q, support_wildcards, support_regex).match(query_key, new_key)
DoMatch ==
    /\ mres = "idle"
    /\ mres' = match(mpat, mkey, support_wildcards, support_regex)
    /\ UNCHANGED <<mpat, mkey, execVars, reconVars, toolVars, cursorVars, cycleVars>>

InitMatch ==
    /\ data = DictV(<<>>) /\ query = <<>>
    /\ support_wildcards \in BOOLEAN /\ support_regex \in BOOLEAN
    /\ pc = "idle" /\ todo = <<>> /\ flattened_data = <<>>
    /\ matched_fields = <<>> /\ query_keys_matched = {} /\ result = <<>>
    /\ ReconIdle
    /\ mpat \in MatchPatterns /\ mkey \in MatchKeys /\ mres = "idle"
    /\ ToolIdle /\ CursorIdle

NextMatch == DoMatch

SpecMatch == InitMatch /\ [][NextMatch]_vars

(***************************************************************************)
(* The stored tree and its tools                                           *)
(***************************************************************************)
\* the number of save_tree calls of a run, the first one included
MaxSaves == 2

Leaf(name) == DictV(<< <<title, StrV(name)>> >>)
Node(name, kids) == DictV(<< <<title, StrV(name)>>, <<sections, ListV(kids)>> >>)

\* draversal.demo(): root, three children, two grandchildren under the
\* second child and one node under the second grandchild
Demo ==
    Node(<<"r">>,
         << Leaf(<<"c", "1">>),
            Node(<<"c", "2">>,
                 << Leaf(<<"g", "1">>),
                    Node(<<"g", "2">>, << Leaf(<<"g", "g">>) >>) >>),
            Leaf(<<"c", "3">>) >>)

Chain == Node(<<"r">>, << Node(<<"a">>, << Leaf(<<"b">>) >>) >>)

InitTrees == {Demo, Chain}
TreeIds == {"t1"}
NewItems == {Leaf(<<"n">>)}
Changes == {<< <<title, StrV(<<"x">>)>> >>, <<>>}

\* the paths of the tree and some that are not: an index out of range at the
\* first level, alone and followed by another index, and one at the level
\* below the deepest nodes
PathPool(root, cf) ==
    LET P == SeqRange(PreOrder(root, cf))
        deepest == {q \in P : \A q2 \in P : Len(q2) <= Len(q)}
        n == Len(ChildrenOf(root, cf))
    IN P \cup {<<n>>, <<n, 0>>} \cup {q \o <<0>> : q \in deepest}

\* walk counts the successive next_item calls made since the stored cursor
\* was at the root; any other call that leaves the cursor elsewhere ends it
WalkAfter(op, sibling_only, r, tree_id) ==
    IF op = "next_item" /\ ~sibling_only /\ walk >= 0 /\ r.ok /\ r.path # NonePath
    THEN walk + 1
    ELSE IF r.store[tree_id].cursor_path = <<>> THEN 0 ELSE -1

\* the call is a prev_item made right after a next_item that moved the stored
\* cursor from a path to its successor, with the same sibling_only
RoundTrip(op, sibling_only) ==
    /\ op = "prev_item"
    /\ last.op = "next_item" /\ last.ok /\ last.sibling_only = sibling_only
    /\ last.ret_path # NonePath /\ last.cursor_before # NonePath

\* the call has run: the store it leaves, the record of the call, and the
\* clock, which a call that saves the tree moves on
Called(op, saves, tree_id, path, sibling_only, arg, r) ==
    /\ store' = r.store
    /\ last' = [op |-> op, tree_id |-> tree_id, path |-> path,
                sibling_only |-> sibling_only, arg |-> arg, ok |-> r.ok,
                item |-> r.item, ret_path |-> r.path,
                cursor_before |-> IF saves \/ op = "set_cursor" THEN <<>>
                                  ELSE store[tree_id].cursor_path,
                origin |-> IF RoundTrip(op, sibling_only) THEN last.cursor_before
                           ELSE NonePath]
    /\ walk' = WalkAfter(op, sibling_only, r, tree_id)
    /\ now' = IF saves /\ r.ok THEN now + 1 ELSE now
    /\ UNCHANGED <<execVars, reconVars, matchVars, cursorVars, cycleVars>>

AddChild ==
    /\ now < MaxSaves
    /\ \E tree_id \in DOMAIN store, item \in NewItems :
         \E path \in PathPool(store[tree_id].data, store[tree_id].children_field) :
            Called("add_child", TRUE, tree_id, path, FALSE, item,
                   tool_add_child(store, now, tree_id, path, item))

ModifyItem ==
    /\ now < MaxSaves
    /\ \E tree_id \in DOMAIN store, changes \in Changes :
         \E path \in PathPool(store[tree_id].data, store[tree_id].children_field) :
            Called("modify_item", TRUE, tree_id, path, FALSE, DictV(changes),
                   tool_modify_item(store, now, tree_id, path, changes))

DeleteChild ==
    /\ now < MaxSaves
    /\ \E tree_id \in DOMAIN store :
         \E path \in PathPool(store[tree_id].data, store[tree_id].children_field) :
            Called("delete_child", TRUE, tree_id, path, FALSE, DictV(<<>>),
                   tool_delete_child(store, now, tree_id, path))

SetCursor ==
    \E tree_id \in DOMAIN store :
       \E path \in PathPool(store[tree_id].data, store[tree_id].children_field) :
          Called("set_cursor", FALSE, tree_id, path, FALSE, DictV(<<>>),
                 tool_set_cursor(store, tree_id, path))

NextItem ==
    \E tree_id \in DOMAIN store, sibling_only \in BOOLEAN :
       Called("next_item", FALSE, tree_id, <<>>, sibling_only, DictV(<<>>),
              tool_next_item(store, tree_id, sibling_only))

PrevItem ==
    \E tree_id \in DOMAIN store, sibling_only \in BOOLEAN :
       Called("prev_item", FALSE, tree_id, <<>>, sibling_only, DictV(<<>>),
              tool_prev_item(store, tree_id, sibling_only))

\* the store after tools.save_tree(data, "sections", "title") at time 0
InitTools ==
    /\ \E d \in InitTrees, tree_id \in TreeIds :
          store = storage_save_tree(<<>>, 0, d, sections, title, tree_id, NoneV)
    /\ now = 1
    /\ last = NoCall
    /\ walk = 0
    /\ cycle = NoCycle
    /\ CursorIdle
    /\ ExecIdle /\ ReconIdle /\ MatchIdle

NextTools == AddChild \/ ModifyItem \/ DeleteChild \/ SetCursor \/ NextItem \/ PrevItem

SpecTools == InitTools /\ [][NextTools]_vars

(***************************************************************************)
(* The tools that search and edit a stored tree                            *)
(***************************************************************************)
\* root with three children, the second with two children of its own
Kin ==
    Node(<<"r">>,
         << Leaf(<<"c", "1">>),
            Node(<<"c", "2">>, << Leaf(<<"g", "1">>), Leaf(<<"g", "2">>) >>),
            Leaf(<<"c", "3">>) >>)

\* two children with the same label, the wanted grandchild under the second
Twin ==
    Node(<<"r">>,
         << Node(<<"a">>, << Leaf(<<"x">>) >>),
            Node(<<"a">>, << Leaf(<<"b">>) >>),
            Leaf(<<"b">>) >>)

\* what save_tree is first called with: a tree with labels, a tree with
\* labels and a schema that requires the title, a tree saved without a
\* label field
EditInits ==
    { [d |-> Kin, lf |-> title, schema |-> NoneV],
      [d |-> Twin, lf |-> title, schema |-> RequiredSchema({title})],
      [d |-> Chain, lf |-> <<>>, schema |-> NoneV] }

\* a node with a title and a node without one
EditItems == {Leaf(<<"n">>), DictV(<< <<<<"k">>, IntV(1)>> >>)}

\* a new title, and a children field that is no list
EditChanges == { << <<title, StrV(<<"x">>)>> >>, << <<sections, IntV(1)>> >> }

TitlePool ==
    { << <<"c", "2">>, <<"g", "1">> >>, << <<"c", "2">> >>, << <<"c", "2">>, <<"z">> >>,
      << <<"z">> >>, << <<"g", "1">> >>, << <<"a">>, <<"b">> >>, << <<"a">>, <<"x">> >>,
      << <<"b">> >> }

Op(name, path, item, changes) ==
    [op |-> name, path |-> path, item |-> item, changes |-> changes]

\* the batches of apply_tree_ops: the two of the tests, one with
\* replace_child, one whose second op has a path out of range, one that
\* leaves a root without a children list, the empty one and one with an op
\* that is not supported
BatchPool ==
    { << Op("add_child", <<>>, Leaf(<<"n">>), <<>>),
         Op("modify", <<1>>, NoneV, << <<title, StrV(<<"x">>)>> >>),
         Op("delete_child", <<0>>, NoneV, <<>>) >>,
      << Op("modify", <<1, 0>>, NoneV, << <<title, StrV(<<"x">>)>> >>),
         Op("add_child", <<1>>, Leaf(<<"n">>), <<>>) >>,
      << Op("delete_child", <<0>>, NoneV, <<>>),
         Op("replace_child", <<0, 0>>, Leaf(<<"n">>), <<>>) >>,
      << Op("add_child", <<>>, Leaf(<<"n">>), <<>>),
         Op("delete_child", <<5>>, NoneV, <<>>) >>,
      << Op("modify", <<>>, NoneV, << <<sections, IntV(1)>> >>) >>,
      <<>>,
      << Op("move", <<>>, NoneV, <<>>) >> }

NoEdit == [op |-> "none", tree_id |-> "", path |-> <<>>, index |-> 0,
           arg |-> NoneV, ok |-> TRUE, found |-> <<>>]

\* a call is made when the call before it has returned.  The call has run:
\* the store it leaves, the record of the call, and the clock, which a call
\* that saves the tree moves on
Edited(op, tree_id, path, index, arg, r) ==
    /\ last = NoEdit
    /\ store' = r.store
    /\ last' = [op |-> op, tree_id |-> tree_id, path |-> path, index |-> index,
                arg |-> arg, ok |-> r.ok, found |-> r.item]
    /\ now' = IF r.store # store THEN now + 1 ELSE now
    /\ UNCHANGED <<walk, execVars, reconVars, matchVars, cursorVars, cycleVars>>

FindPaths ==
    \E tree_id \in DOMAIN store, titles \in TitlePool :
       Edited("find_paths", tree_id, <<>>, 0, titles, tool_find_paths(store, tree_id, titles))

EditAddChild ==
    /\ now < MaxSaves
    /\ \E tree_id \in DOMAIN store, item \in EditItems :
         \E path \in PathPool(store[tree_id].data, store[tree_id].children_field) :
            Edited("add_child", tree_id, path, 0, item,
                   tool_add_child(store, now, tree_id, path, item))

\* the positions of the children list of the node at the path, the one after
\* the last child included
IndexPool(root, cf, path) ==
    IF ValidPath(root, cf, path) THEN 0..Len(ChildrenOf(ItemAt(root, cf, path), cf)) ELSE {0}

EditInsertChild ==
    /\ now < MaxSaves
    /\ \E tree_id \in DOMAIN store, item \in EditItems :
         \E path \in PathPool(store[tree_id].data, store[tree_id].children_field) :
            \E index \in IndexPool(store[tree_id].data, store[tree_id].children_field, path) :
               Edited("insert_child", tree_id, path, index, item,
                      tool_insert_child(store, now, tree_id, path, index, item))

EditReplaceChild ==
    /\ now < MaxSaves
    /\ \E tree_id \in DOMAIN store, item \in EditItems :
         \E path \in PathPool(store[tree_id].data, store[tree_id].children_field) :
            Edited("replace_child", tree_id, path, 0, item,
                   tool_replace_child(store, now, tree_id, path, item))

EditModifyItem ==
    /\ now < MaxSaves
    /\ \E tree_id \in DOMAIN store, changes \in EditChanges :
         \E path \in PathPool(store[tree_id].data, store[tree_id].children_field) :
            Edited("modify_item", tree_id, path, 0, DictV(changes),
                   tool_modify_item(store, now, tree_id, path, changes))

EditDeleteChild ==
    /\ now < MaxSaves
    /\ \E tree_id \in DOMAIN store :
         \E path \in PathPool(store[tree_id].data, store[tree_id].children_field) :
            Edited("delete_child", tree_id, path, 0, NoneV,
                   tool_delete_child(store, now, tree_id, path))

ApplyTreeOps ==
    /\ now < MaxSaves
    /\ \E tree_id \in DOMAIN store, ops \in BatchPool :
          Edited("apply_tree_ops", tree_id, <<>>, 0, ops,
                 tool_apply_tree_ops(store, now, tree_id, ops))

\* the caller has the result of the call and is free to make the next one
EditReturn ==
    /\ last # NoEdit
    /\ last' = NoEdit
    /\ UNCHANGED <<store, now, walk, execVars, reconVars, matchVars, cursorVars, cycleVars>>

\* the store after tools.save_tree(data, "sections", label_field,
\* schema=schema) at time 0
InitEdit ==
    /\ \E e \in EditInits, tree_id \in TreeIds :
          store = storage_save_tree(<<>>, 0, e.d, sections, e.lf, tree_id, e.schema)
    /\ now = 1
    /\ last = NoEdit
    /\ walk = -1
    /\ cycle = NoCycle
    /\ CursorIdle
    /\ ExecIdle /\ ReconIdle /\ MatchIdle

NextEdit ==
    \/ FindPaths
    \/ EditAddChild \/ EditInsertChild \/ EditReplaceChild
    \/ EditModifyItem \/ EditDeleteChild
    \/ ApplyTreeOps
    \/ EditReturn

SpecEdit == InitEdit /\ [][NextEdit]_vars

(***************************************************************************)
(* Saving again and moving the stored cursor: a store of several trees,    *)
(* each with its cursor, on which trees are saved under ids that exist,    *)
(* under ids that do not and under no id, are changed by the mutation      *)
(* tools, and have their cursors set and moved                             *)
(***************************************************************************)
\* a root without children, and a root without a children list
Bare == Node(<<"r">>, <<>>)
NoList == Leaf(<<"r">>)

\* what save_tree is called with
SaveData == {Bare, NoList}
SaveIds == {"t1", "t2", NoTreeId}
SaveSchemas == {NoneV, RequiredSchema({title})}

\* the paths that set_cursor is called with: the root, the first child, its
\* first child, and an index out of range
CursorPaths == {<<>>, <<0>>, <<0, 0>>, <<9>>}

NoSave == [op |-> "none", tree_id |-> "", id |-> "", path |-> <<>>, d |-> NoneV,
           schema |-> NoneV, ok |-> TRUE]

\* a call is made when the call before it has returned.  The call has run:
\* the store it leaves and the record of the call, with the id the call was
\* given and the id of the entry it was about
Saved(op, tree_id, id, path, d, schema, r) ==
    /\ last = NoSave
    /\ store' = r.store
    /\ last' = [op |-> op, tree_id |-> tree_id, id |-> id, path |-> path, d |-> d,
                schema |-> schema, ok |-> r.ok]
    /\ now' = IF r.store # store /\ op \notin {"set_cursor", "next_item", "prev_item"}
              THEN now + 1 ELSE now
    /\ UNCHANGED <<walk, execVars, reconVars, matchVars, cursorVars, cycleVars>>

SaveAgain ==
    /\ now < MaxSaves
    /\ \E d \in SaveData, tree_id \in SaveIds, schema \in SaveSchemas :
          Saved("save_tree", tree_id,
                IF tree_id = NoTreeId THEN NewTreeId(now) ELSE tree_id,
                <<>>, d, schema,
                tool_save_tree(store, now, d, sections, title, tree_id, schema))

SaveAddChild ==
    /\ now < MaxSaves
    /\ \E tree_id \in DOMAIN store :
          Saved("add_child", tree_id, tree_id, <<>>, Leaf(<<"n">>), NoneV,
                tool_add_child(store, now, tree_id, <<>>, Leaf(<<"n">>)))

SaveDeleteChild ==
    /\ now < MaxSaves
    /\ \E tree_id \in DOMAIN store :
          Saved("delete_child", tree_id, tree_id, <<0>>, NoneV, NoneV,
                tool_delete_child(store, now, tree_id, <<0>>))

SaveSetCursor ==
    \E tree_id \in DOMAIN store, path \in CursorPaths :
       Saved("set_cursor", tree_id, tree_id, path, NoneV, NoneV,
             tool_set_cursor(store, tree_id, path))

SaveNextItem ==
    \E tree_id \in DOMAIN store :
       Saved("next_item", tree_id, tree_id, <<>>, NoneV, NoneV,
             tool_next_item(store, tree_id, FALSE))

SavePrevItem ==
    \E tree_id \in DOMAIN store :
       Saved("prev_item", tree_id, tree_id, <<>>, NoneV, NoneV,
             tool_prev_item(store, tree_id, FALSE))

\* the caller has the result of the call and is free to make the next one
SaveReturn ==
    /\ last # NoSave
    /\ last' = NoSave
    /\ UNCHANGED <<store, now, walk, execVars, reconVars, matchVars, cursorVars, cycleVars>>

\* the store after tools.save_tree(data, "sections", "title", "t1",
\* schema=schema) at time 0
InitSave ==
    /\ \E e \in {x \in EditInits : x.lf = title} :
          store = storage_save_tree(<<>>, 0, e.d, sections, e.lf, "t1", e.schema)
    /\ now = 1
    /\ last = NoSave
    /\ walk = -1
    /\ cycle = NoCycle
    /\ CursorIdle
    /\ ExecIdle /\ ReconIdle /\ MatchIdle

NextSave ==
    \/ SaveAgain \/ SaveAddChild \/ SaveDeleteChild
    \/ SaveSetCursor \/ SaveNextItem \/ SavePrevItem
    \/ SaveReturn

SpecSave == InitSave /\ [][NextSave]_vars

(***************************************************************************)
(* storage.py on disk: the store is one JSON file holding every entry, or  *)
(* a directory with one JSON file per entry                                *)
(***************************************************************************)
\* json.dumps of a value: the JSON document, or the document TypeError for a
\* value that JSON cannot hold
TypeError == <<"TypeError", 0>>

RECURSIVE json_dumps(_)
json_dumps(v) ==
    CASE Tag(v) = "int" -> <<"jnum", Payload(v)>>
      [] Tag(v) = "str" -> <<"jstr", Payload(v)>>
      [] Tag(v) = "none" -> <<"jnull", 0>>
      [] Tag(v) = "list" ->
            LET docs == [i \in 1..Len(Payload(v)) |-> json_dumps(Payload(v)[i])]
            IN IF \E i \in 1..Len(docs) : docs[i] = TypeError THEN TypeError
               ELSE <<"jarr", docs>>
      [] Tag(v) = "dict" ->
            LET docs == [i \in 1..Len(Payload(v)) |->
                            <<Payload(v)[i][1], json_dumps(Payload(v)[i][2])>>]
            IN IF \E i \in 1..Len(docs) : docs[i][2] = TypeError THEN TypeError
               ELSE <<"jobj", docs>>
      [] OTHER -> TypeError

\* json.loads of a document
RECURSIVE json_loads(_)
json_loads(doc) ==
    CASE doc[1] = "jnum" -> IntV(doc[2])
      [] doc[1] = "jstr" -> StrV(doc[2])
      [] doc[1] = "jnull" -> NoneV
      [] doc[1] = "jarr" -> ListV([i \in 1..Len(doc[2]) |-> json_loads(doc[2][i])])
      [] doc[1] = "jobj" ->
            DictV([i \in 1..Len(doc[2]) |-> <<doc[2][i][1], json_loads(doc[2][i][2])>>])

\* the code of a character of a tree id
Ascii(c) ==
    CASE c = "a" -> 97 [] c = "b" -> 98 [] c = "u" -> 117 [] c = "z" -> 122
      [] OTHER -> 48 + DigitVal(c)

B64Chars ==
    <<"A", "B", "C", "D", "E", "F", "G", "H", "I", "J", "K", "L", "M", "N", "O", "P",
      "Q", "R", "S", "T", "U", "V", "W", "X", "Y", "Z", "a", "b", "c", "d", "e", "f",
      "g", "h", "i", "j", "k", "l", "m", "n", "o", "p", "q", "r", "s", "t", "u", "v",
      "w", "x", "y", "z", "0", "1", "2", "3", "4", "5", "6", "7", "8", "9", "-", "_">>

\* base64.urlsafe_b64encode of a sequence of bytes
RECURSIVE urlsafe_b64encode(_)
urlsafe_b64encode(bytes) ==
    IF Len(bytes) = 0 THEN <<>>
    ELSE IF Len(bytes) = 1
    THEN LET n == bytes[1] * 16
         IN <<B64Chars[(n \div 64) + 1], B64Chars[(n % 64) + 1], "=", "=">>
    ELSE IF Len(bytes) = 2
    THEN LET n == (bytes[1] * 256 + bytes[2]) * 4
         IN <<B64Chars[(n \div 4096) + 1], B64Chars[((n \div 64) % 64) + 1],
              B64Chars[(n % 64) + 1], "=">>
    ELSE LET n == bytes[1] * 65536 + bytes[2] * 256 + bytes[3]
         IN <<B64Chars[(n \div 262144) + 1], B64Chars[((n \div 4096) % 64) + 1],
              B64Chars[((n \div 64) % 64) + 1], B64Chars[(n % 64) + 1]>>
            \o urlsafe_b64encode(Tail2(bytes, 4))

json_suffix == <<".", "j", "s", "o", "n">>

\* _encode_tree_id: the name of the file of a tree in the directory
encode_tree_id(tree_id) ==
    urlsafe_b64encode([i \in 1..Len(tree_id) |-> Ascii(tree_id[i])]) \o json_suffix

\* the store path: its suffix, what is at the path (nothing, a file, a
\* directory, a file that is no JSON document), the trees of the file and
\* the files of the directory.  files holds the files that parse as a JSON
\* object, each with the object, and bad the names of the files that do not;
\* in a store file bad holds the ids whose entry is no object
Disk(suffix, kind) ==
    [suffix |-> suffix, kind |-> kind, trees |-> <<>>, files |-> <<>>, bad |-> {}]

is_dir_store(disk) ==
    IF disk.kind # "absent" THEN disk.kind = "dir" ELSE disk.suffix # json_suffix

\* the tree_id argument that is None
NoId == <<"none">>

\* _load_tree_entry: the entry of the file of the id, as a map that has the
\* id when the file exists
load_tree_entry(disk, tree_id) ==
    IF encode_tree_id(tree_id) \in DOMAIN disk.files
    THEN (tree_id :> disk.files[encode_tree_id(tree_id)])
    ELSE <<>>

\* save_tree(data, children_field, label_field, tree_id, schema) at time
\* clock; uuid is the id that uuid4 gives when tree_id is None.  The result is
\* [ok, disk, ret]: json.dumps raises before anything is written
disk_save_tree(disk, clock, d, cf, lf, tree_id, schema, uuid) ==
    LET id == IF tree_id = NoId THEN uuid ELSE tree_id
        known == IF is_dir_store(disk) THEN load_tree_entry(disk, id) ELSE disk.trees
        entry == storage_save_tree(known, clock, d, cf, lf, id, schema)[id]
        written == [entry EXCEPT !.data = json_loads(json_dumps(d))]
    IN IF json_dumps(d) = TypeError THEN [ok |-> FALSE, disk |-> disk, ret |-> NoneV]
       ELSE [ok |-> TRUE,
             disk |-> IF is_dir_store(disk)
                      THEN [disk EXCEPT !.kind = "dir",
                                        !.files = [f \in DOMAIN disk.files \cup {encode_tree_id(id)} |->
                                                      IF f = encode_tree_id(id) THEN written
                                                      ELSE disk.files[f]]]
                      ELSE [disk EXCEPT !.kind = "file",
                                        !.trees = [i \in DOMAIN disk.trees \cup {id} |->
                                                      IF i = id THEN written ELSE disk.trees[i]]],
             ret |-> [tree_id |-> id, created_at |-> entry.created_at,
                      updated_at |-> entry.updated_at, count |-> entry.count,
                      top_labels |-> entry.top_labels, cursor_path |-> entry.cursor_path,
                      schema |-> entry.schema]]

\* _with_meta: count and top_labels are computed when the entry lacks them
\* and has the data and the children field to compute them from
with_meta(entry) ==
    LET computable == {"data", "children_field"} \subseteq DOMAIN entry
        lf == IF "label_field" \in DOMAIN entry THEN entry.label_field ELSE <<>>
    IN [k \in DOMAIN entry \cup (IF computable THEN {"count", "top_labels"} ELSE {}) |->
           IF k \in DOMAIN entry THEN entry[k]
           ELSE IF k = "count" THEN count_nodes(entry.data, entry.children_field)
           ELSE top_labels(entry.data, entry.children_field, lf)]

Without(entry, fields) == [k \in DOMAIN entry \ fields |-> entry[k]]

\* get_tree(tree_id, include_data): [ok, ret], ok FALSE for the KeyError
disk_get_tree(disk, tree_id, include_data) ==
    LET known == IF is_dir_store(disk) THEN load_tree_entry(disk, tree_id) ELSE disk.trees
    IN IF tree_id \notin DOMAIN known THEN [ok |-> FALSE, ret |-> NoneV]
       ELSE [ok |-> TRUE,
             ret |-> IF include_data THEN with_meta(known[tree_id])
                     ELSE Without(with_meta(known[tree_id]), {"data"})]

\* a variant that leaves the data in the listed entry
ListedWithData(entry) == Without(with_meta(entry), {"schema"})

\* what list_trees shows of an entry
Listed(entry) == Without(with_meta(entry), {"data", "schema"})

\* item.get("updated_at", ""): the empty string comes before every time
UpdatedAt(entry) == IF "updated_at" \in DOMAIN entry THEN entry.updated_at ELSE -1

\* the entries of the names sorted by updated_at, the latest first
RECURSIVE SortedByUpdate(_, _)
SortedByUpdate(known, names) ==
    IF names = {} THEN <<>>
    ELSE LET m == CHOOSE e \in names :
                     \A f \in names : UpdatedAt(known[f]) <= UpdatedAt(known[e])
         IN <<Listed(known[m])>> \o SortedByUpdate(known, names \ {m})

\* path.glob("*.json")
IsJsonName(f) ==
    Len(f) >= Len(json_suffix) /\ SubSeq(f, Len(f) - Len(json_suffix) + 1, Len(f)) = json_suffix

\* a variant that lists every object of the directory
EveryObject(disk) == {f \in DOMAIN disk.files : IsJsonName(f)}

\* _list_tree_entries: the files *.json of the directory that load as an
\* object with a tree_id; a file that does not load is passed over
list_tree_entries(disk) ==
    {f \in DOMAIN disk.files : IsJsonName(f) /\ "tree_id" \in DOMAIN disk.files[f]}

\* list_trees(limit), limit 0 standing for None
disk_list_trees(disk, limit) ==
    LET sorted == IF is_dir_store(disk)
                  THEN SortedByUpdate(disk.files, list_tree_entries(disk))
                  ELSE SortedByUpdate(disk.trees, DOMAIN disk.trees)
    IN IF limit # 0 THEN SubSeq(sorted, 1, IF limit < Len(sorted) THEN limit ELSE Len(sorted))
       ELSE sorted

\* delete_tree(tree_id): [disk, ret]
disk_delete_tree(disk, tree_id) ==
    IF is_dir_store(disk)
    THEN IF encode_tree_id(tree_id) \in DOMAIN disk.files
         THEN [disk |-> [disk EXCEPT !.files = [f \in DOMAIN disk.files \ {encode_tree_id(tree_id)} |->
                                                   disk.files[f]]],
               ret |-> [deleted |-> TRUE, tree_id |-> tree_id]]
         ELSE [disk |-> disk, ret |-> [deleted |-> FALSE, tree_id |-> tree_id]]
    ELSE IF tree_id \in DOMAIN disk.trees
         THEN [disk |-> [disk EXCEPT !.kind = "file",
                                     !.trees = [i \in DOMAIN disk.trees \ {tree_id} |->
                                                   disk.trees[i]]],
               ret |-> [deleted |-> TRUE, tree_id |-> tree_id]]
         ELSE [disk |-> disk, ret |-> [deleted |-> FALSE, tree_id |-> tree_id]]

\* the trees that are saved, each with its label field: one with labels,
\* one without a label field, one that holds a value JSON cannot hold
StoreTrees ==
    { [d |-> Chain, lf |-> title],
      [d |-> Kin, lf |-> <<>>],
      [d |-> DictV(<< <<title, StrV(<<"r">>)>>, <<sections, ListV(<<>>)>>,
                      <<<<"k">>, <<"func", "f">>>> >>),
       lf |-> title] }

\* the id that uuid4 gives to the n-th save
Uuid(n) == <<"u">> \o IntToStr(n)

\* the ids a caller passes: one it has chosen, one never saved, and those
\* that save_tree has made up
IdPool == {<<"a">>, <<"z">>} \cup {Uuid(n) : n \in 0..MaxSaves}

\* the call has run: the disk it leaves and the record of the call; the
\* clock moves on with every save
Stored(op, tree_id, arg, ok, ret, disk) ==
    /\ store' = disk
    /\ last' = [op |-> op, tree_id |-> tree_id, arg |-> arg, ok |-> ok, ret |-> ret]
    /\ now' = IF op = "save_tree" /\ ok THEN now + 1 ELSE now
    /\ UNCHANGED <<walk, execVars, reconVars, matchVars, cursorVars, cycleVars>>

SaveTree ==
    /\ now < MaxSaves
    /\ \E e \in StoreTrees, tree_id \in {NoId, <<"a">>} :
          LET r == disk_save_tree(store, now, e.d, sections, e.lf, tree_id, NoneV, Uuid(now))
          IN Stored("save_tree", tree_id, e, r.ok, r.ret, r.disk)

GetTree ==
    \E tree_id \in IdPool, include_data \in BOOLEAN :
       LET r == disk_get_tree(store, tree_id, include_data)
       IN Stored("get_tree", tree_id, include_data, r.ok, r.ret, store)

ListTrees ==
    \E limit \in {0, 1} :
       Stored("list_trees", NoId, limit, TRUE, disk_list_trees(store, limit), store)

DeleteTree ==
    \E tree_id \in IdPool :
       LET r == disk_delete_tree(store, tree_id)
       IN Stored("delete_tree", tree_id, NoneV, TRUE, r.ret, r.disk)

\* the store path before the first call: a path that ends in .json, a path
\* that does not, and a directory whose name ends in .json
InitStore ==
    /\ store \in {Disk(json_suffix, "absent"), Disk(<<>>, "absent"), Disk(json_suffix, "dir")}
    /\ now = 0
    /\ last = [op |-> "none", tree_id |-> NoId, arg |-> NoneV, ok |-> TRUE, ret |-> NoneV]
    /\ walk = -1
    /\ cycle = NoCycle
    /\ CursorIdle
    /\ ExecIdle /\ ReconIdle /\ MatchIdle

NextStore == SaveTree \/ GetTree \/ ListTrees \/ DeleteTree

SpecStore == InitStore /\ [][NextStore]_vars

(***************************************************************************)
(* cli.py: the store CLI, and the store as it finds it: with the files and *)
(* entries that the tests write into it next to the saved trees            *)
(***************************************************************************)
FileName(stem) == stem \o json_suffix

\* the files of a directory that glob("*.json") gives
JsonNames(disk) == {f \in DOMAIN disk.files \cup disk.bad : IsJsonName(f)}

\* the files that are removed and reported: those that do not load as an
\* object, and the objects without a tree_id
InvalidFiles(disk) ==
    {f \in JsonNames(disk) : f \in disk.bad \/ "tree_id" \notin DOMAIN disk.files[f]}

\* the entries of a store file that are no object or have no tree_id
InvalidEntries(disk) ==
    disk.bad \cup {i \in DOMAIN disk.trees : "tree_id" \notin DOMAIN disk.trees[i]}

\* the store file does not load
Garbage(disk) == ~is_dir_store(disk) /\ disk.kind = "garbage"

\* the error that is reported for a store file that does not load
StorePathError == <<"store_path">>

\* _validate_store: the report [mode, total, valid, errors]; in file mode
\* total is tree_count and valid is not reported
cli_validate(disk) ==
    IF is_dir_store(disk)
    THEN [mode |-> "directory",
          total |-> Cardinality(JsonNames(disk)),
          valid |-> Cardinality(JsonNames(disk) \ InvalidFiles(disk)),
          errors |-> InvalidFiles(disk)]
    ELSE IF Garbage(disk)
    THEN [mode |-> "file", total |-> 0, valid |-> 0, errors |-> {StorePathError}]
    ELSE [mode |-> "file",
          total |-> Cardinality(DOMAIN disk.trees \cup disk.bad),
          valid |-> 0,
          errors |-> InvalidEntries(disk)]

\* a variant that removes the files that do not load and keeps the objects
\* without a tree_id
PruneUnloadable(disk) ==
    LET gone == IF is_dir_store(disk) THEN JsonNames(disk) \cap disk.bad ELSE disk.bad
    IN [disk |-> [disk EXCEPT !.bad = @ \ gone],
        report |-> [mode |-> IF is_dir_store(disk) THEN "directory" ELSE "file",
                    removed |-> Cardinality(gone), errors |-> {}]]

\* _prune_store: [disk, report], the report being [mode, removed, errors]
cli_prune(disk) ==
    IF is_dir_store(disk)
    THEN [disk |-> [disk EXCEPT !.files = [f \in DOMAIN disk.files \ InvalidFiles(disk) |->
                                              disk.files[f]],
                                !.bad = @ \ InvalidFiles(disk)],
          report |-> [mode |-> "directory", removed |-> Cardinality(InvalidFiles(disk)),
                      errors |-> {}]]
    ELSE IF Garbage(disk)
    THEN [disk |-> disk,
          report |-> [mode |-> "file", removed |-> 0, errors |-> {StorePathError}]]
    ELSE [disk |-> [disk EXCEPT !.trees = [i \in DOMAIN disk.trees \ InvalidEntries(disk) |->
                                              disk.trees[i]],
                                !.bad = {}],
          report |-> [mode |-> "file", removed |-> Cardinality(InvalidEntries(disk)),
                      errors |-> {}]]

\* main: the exit code is 1 when the report has errors
ExitCode(report) == IF report.errors # {} THEN 1 ELSE 0

\* what the tests write into a directory store: a file that is no JSON, an
\* object without a tree_id, an object that has a tree_id and nothing else,
\* and an object with a tree_id in a file that is not named *.json
PlantedFiles ==
    { [name |-> FileName(<<"c">>), loads |-> FALSE, obj |-> <<>>],
      [name |-> FileName(<<"m">>), loads |-> TRUE,
       obj |-> [data |-> DictV(<< <<title, StrV(<<"o">>)>> >>)]],
      [name |-> FileName(<<"p">>), loads |-> TRUE, obj |-> [tree_id |-> <<"p">>]],
      [name |-> <<"n", ".", "t", "x", "t">>, loads |-> TRUE, obj |-> [tree_id |-> <<"n">>]] }

\* no call is under way
NoCli == [op |-> "none", tree_id |-> NoId, arg |-> NoneV, ok |-> TRUE, ret |-> NoneV]

\* Path(store_dir, name).write_text(...)
PlantFile ==
    /\ last = NoCli
    /\ is_dir_store(store) /\ store.kind = "dir"
    /\ \E pf \in PlantedFiles :
          /\ pf.name \notin DOMAIN store.files \cup store.bad
          /\ Stored("plant", NoId, pf.name, TRUE, NoneV,
                    IF pf.loads
                    THEN [store EXCEPT !.files = [f \in DOMAIN store.files \cup {pf.name} |->
                                                     IF f = pf.name THEN pf.obj
                                                     ELSE store.files[f]]]
                    ELSE [store EXCEPT !.bad = @ \cup {pf.name}])

\* a copy of the file of a saved tree under another name
PlantCopy ==
    /\ last = NoCli
    /\ is_dir_store(store) /\ store.kind = "dir"
    /\ FileName(<<"k">>) \notin DOMAIN store.files
    /\ \E g \in list_tree_entries(store) :
          Stored("plant", NoId, FileName(<<"k">>), TRUE, NoneV,
                 [store EXCEPT !.files = [f \in DOMAIN store.files \cup {FileName(<<"k">>)} |->
                                             IF f = FileName(<<"k">>) THEN store.files[g]
                                             ELSE store.files[f]]])

\* what a store file may hold besides saved trees: an entry without a
\* tree_id, an entry that is no object, or text that is no JSON at all
PlantEntry ==
    /\ last = NoCli
    /\ ~is_dir_store(store) /\ store.kind = "file"
    /\ \/ /\ <<"m">> \notin DOMAIN store.trees
          /\ Stored("plant", NoId, <<"m">>, TRUE, NoneV,
                    [store EXCEPT !.trees = [i \in DOMAIN store.trees \cup {<<"m">>} |->
                                                IF i = <<"m">>
                                                THEN [data |-> DictV(<< <<title, StrV(<<"o">>)>> >>)]
                                                ELSE store.trees[i]]])
       \/ /\ <<"n">> \notin store.bad
          /\ Stored("plant", NoId, <<"n">>, TRUE, NoneV, [store EXCEPT !.bad = @ \cup {<<"n">>}])
       \/ Stored("plant", NoId, <<"g">>, TRUE, NoneV,
                 [store EXCEPT !.kind = "garbage", !.trees = <<>>, !.bad = {}])

\* save_tree on a store that loads
CliSave ==
    /\ last = NoCli
    /\ now < MaxSaves
    /\ ~Garbage(store)
    /\ \E e \in {x \in StoreTrees : json_dumps(x.d) # TypeError}, tree_id \in {NoId, <<"a">>} :
          LET r == disk_save_tree(store, now, e.d, sections, e.lf, tree_id, NoneV, Uuid(now))
          IN Stored("save_tree", tree_id, e, r.ok, r.ret, r.disk)

\* list_trees(limit) on a directory store
CliList ==
    /\ last = NoCli
    /\ is_dir_store(store)
    /\ \E limit \in 0..2 :
          Stored("list_trees", NoId, limit, TRUE, disk_list_trees(store, limit), store)

\* draversal-store validate
CliValidate ==
    /\ last = NoCli
    /\ Stored("validate", NoId, NoneV, ExitCode(cli_validate(store)) = 0,
              cli_validate(store), store)

\* draversal-store prune
CliPrune ==
    LET r == cli_prune(store)
    IN /\ last = NoCli
       /\ Stored("prune", NoId, NoneV, ExitCode(r.report) = 0, r.report, r.disk)

\* the caller has the output of the call and is free to make the next one
CliReturn ==
    /\ last # NoCli
    /\ last' = NoCli
    /\ UNCHANGED <<store, now, walk, execVars, reconVars, matchVars, cursorVars, cycleVars>>

InitCli ==
    /\ store \in {Disk(json_suffix, "absent"), Disk(<<>>, "absent"), Disk(json_suffix, "dir")}
    /\ now = 0
    /\ last = NoCli
    /\ walk = -1
    /\ cycle = NoCycle
    /\ CursorIdle
    /\ ExecIdle /\ ReconIdle /\ MatchIdle

NextCli ==
    \/ PlantFile \/ PlantCopy \/ PlantEntry
    \/ CliSave \/ CliList \/ CliValidate \/ CliPrune \/ CliReturn

SpecCli == InitCli /\ [][NextCli]_vars

(***************************************************************************)
(* A cursor in memory.  now counts the changes made to the tree, the       *)
(* construction included.  Inside a new_root scope the cursor is rooted at *)
(* the node it was on, and scope holds the root and path to restore.       *)
(***************************************************************************)
T == [root |-> t_root, path |-> t_path, current |-> t_current]

\* the cursor call has run, leaving the cursor t
CursorCalled(op, path, sibling_only, arg, ok, item, t, changes) ==
    /\ t_root' = t.root /\ t_path' = t.path /\ t_current' = t.current
    /\ last' = [op |-> op, tree_id |-> "", path |-> path, sibling_only |-> sibling_only,
                arg |-> arg, ok |-> ok, item |-> item, ret_path |-> NonePath,
                cursor_before |-> <<>>, origin |-> NonePath]
    /\ now' = IF changes /\ ok THEN now + 1 ELSE now
    /\ UNCHANGED <<store, walk, execVars, reconVars, matchVars, cycleVars>>

SetPathAsCurrent ==
    \E path \in PathPool(t_root, sections) :
       LET r == set_path_as_current(T, sections, path)
       IN /\ CursorCalled("set_path_as_current", path, FALSE, DictV(<<>>),
                          r.ok, r.t.current, r.t, FALSE)
          /\ UNCHANGED scope

\* the cursor moved to the item the sequencing rule returns, when it returns one
MoveTo(t, r) ==
    IF r.path = NonePath THEN t ELSE [t EXCEPT !.path = r.path, !.current = r.item]

MoveToNextItem ==
    \E sibling_only \in BOOLEAN :
       LET r == get_next_item_and_path(T, sections, sibling_only)
       IN /\ CursorCalled("move_to_next_item", <<>>, sibling_only, DictV(<<>>),
                          r.path # NonePath, r.item, MoveTo(T, r), FALSE)
          /\ UNCHANGED scope

MoveToPrevItem ==
    \E sibling_only \in BOOLEAN :
       LET r == get_previous_item_and_path(T, sections, sibling_only)
       IN /\ CursorCalled("move_to_prev_item", <<>>, sibling_only, DictV(<<>>),
                          r.path # NonePath, r.item, MoveTo(T, r), FALSE)
          /\ UNCHANGED scope

\* a full iteration: it starts at the root whatever the cursor was on and
\* visits every node; it leaves the cursor where it was or on the root
Iterate ==
    \E after \in {t_path, <<>>} :
       /\ CursorCalled("iterate", <<>>, FALSE, DictV(<<>>), TRUE, NoneV,
                       [T EXCEPT !.path = after, !.current = ItemAt(t_root, sections, after)],
                       FALSE)
       /\ UNCHANGED scope

Modify ==
    /\ now < MaxSaves /\ scope = <<>>
    /\ \E changes \in Changes \ {<<>>} :
          CursorCalled("modify", t_path, FALSE, DictV(changes), TRUE, NoneV,
                       modify(T, sections, changes), TRUE)
    /\ UNCHANGED scope

AddChildAtCurrent ==
    /\ now < MaxSaves /\ scope = <<>>
    /\ \E item \in NewItems :
          CursorCalled("add_child", t_path, FALSE, item, TRUE, NoneV,
                       add_child(T, sections, item), TRUE)
    /\ UNCHANGED scope

DelItem ==
    /\ now < MaxSaves /\ scope = <<>>
    /\ \E i \in 0..Len(ChildrenOf(t_current, sections)) :
          LET r == delitem(T, sections, <<i>>)
          IN CursorCalled("delitem", t_path \o <<i>>, FALSE, DictV(<<>>), r.ok, NoneV,
                          r.t, TRUE)
    /\ UNCHANGED scope

\* with traversal.new_root(merge=True) as inner: the block is entered
NewRootEnter ==
    /\ scope = <<>>
    /\ scope' = <<[root |-> t_root, path |-> t_path]>>
    /\ CursorCalled("new_root", t_path, FALSE, DictV(<<>>), TRUE, NoneV,
                    DictTraversal(t_current), FALSE)

\* a variant that gives back the outer root with the cursor on it
RestoreRootOnly(sc) == [root |-> sc.root, path |-> <<>>, current |-> sc.root]

\* the cursor a scope gives back when it ends: the root and path of before
RestoreContext(sc) ==
    [root |-> sc.root, path |-> sc.path, current |-> ItemAt(sc.root, sections, sc.path)]

\* the block is left at its end
NewRootExit ==
    /\ scope # <<>>
    /\ scope' = <<>>
    /\ CursorCalled("exit_root", scope[1].path, FALSE, DictV(<<>>), TRUE, NoneV,
                    RestoreContext(scope[1]), FALSE)

\* the block is left by the error of a call inside it: set_path_as_current
\* with a path that is out of range
NewRootRaise ==
    /\ scope # <<>>
    /\ \E path \in PathPool(t_root, sections) :
          /\ ~set_path_as_current(T, sections, path).ok
          /\ CursorCalled("exit_root", scope[1].path, FALSE, DictV(<<>>), FALSE, NoneV,
                          RestoreContext(scope[1]), FALSE)
    /\ scope' = <<>>

InitCursor ==
    /\ t_root \in InitTrees /\ t_path = <<>> /\ t_current = t_root /\ scope = <<>>
    /\ store = <<>> /\ now = 1 /\ last = NoCall /\ walk = -1
    /\ cycle = NoCycle
    /\ ExecIdle /\ ReconIdle /\ MatchIdle

NextCursor ==
    \/ SetPathAsCurrent \/ MoveToNextItem \/ MoveToPrevItem \/ Iterate
    \/ Modify \/ AddChildAtCurrent \/ DelItem
    \/ NewRootEnter \/ NewRootExit \/ NewRootRaise

SpecCursor == InitCursor /\ [][NextCursor]_vars

(***************************************************************************)
(* Two callers on one stored tree.  A mutation tool is a cycle: it loads   *)
(* the entry (_get_traversal), changes the tree in memory, validates it    *)
(* (_save_traversal) and saves it; save_tree reads the store, opens the    *)
(* temporary file, writes the new content into it and moves that file over *)
(* the store (_write_store, _write_tree_file).  Both callers use the same  *)
(* temporary file name, and a file that is open stays the same file when   *)
(* it is moved.  store is the content that the store file begins with;     *)
(* cycle holds the size of the store file and what is left in it of an     *)
(* older content (file), the temporary file (tmp) and where each caller    *)
(* stands (procs).  last is the write that reached the store file last:    *)
(* who made it, and from which snapshot and call the content was computed. *)
(***************************************************************************)
Procs == {1, 2}

CycleId == "t1"

\* the calls of the callers: a new child of the root, a new key of the root,
\* a new title of the first child, the first child removed, and a change
\* that the validation rejects
CycleCalls ==
    { Op("add_child", <<>>, Leaf(<<"n">>), <<>>),
      Op("modify", <<>>, NoneV, << <<<<"k">>, IntV(1)>> >>),
      Op("modify", <<0>>, NoneV, << <<title, StrV(<<"x">>)>> >>),
      Op("delete_child", <<0>>, NoneV, <<>>),
      Op("modify", <<>>, NoneV, << <<sections, IntV(1)>> >>) }

NoOp == Op("none", <<>>, NoneV, <<>>)

\* a file: the content it begins with, the size of that content, and the
\* number of characters of an older content that follow it
File(content, size, rest, snap, call) ==
    [exists |-> TRUE, content |-> content, size |-> size, rest |-> rest,
     snap |-> snap, call |-> call]

NoTmp == [exists |-> FALSE, content |-> <<>>, size |-> 0, rest |-> 0,
          snap |-> NoneV, call |-> NoOp]

NoMove == [op |-> "none", proc |-> 0, snap |-> NoneV, call |-> NoOp]

IdleCycle ==
    [pc |-> "idle", call |-> NoOp, entry |-> <<>>, d |-> NoneV, out |-> <<>>, fd |-> "none"]

\* the number of characters that json.dumps writes for a tree, the white
\* space of the indentation left out
RECURSIVE SizeOf(_)
RECURSIVE SizeOfAll(_, _)
SizeOfAll(docs, i) ==
    IF i > Len(docs) THEN 0
    ELSE SizeOf(docs[i]) + (IF i < Len(docs) THEN 1 ELSE 0) + SizeOfAll(docs, i + 1)

SizeOf(v) ==
    CASE Tag(v) = "int" -> Len(IntToStr(Payload(v)))
      [] Tag(v) = "str" -> Len(Payload(v)) + 2
      [] Tag(v) = "none" -> 4
      [] Tag(v) = "list" -> 2 + SizeOfAll(Payload(v), 1)
      [] Tag(v) = "dict" ->
            2 + SizeOfAll([i \in 1..Len(Payload(v)) |->
                              ListV(<<StrV(Payload(v)[i][1]), Payload(v)[i][2]>>)], 1)
                - 2 * Len(Payload(v))

\* the store file parses: it is not empty and holds one content only
Readable(file) == file.size > 0 /\ file.rest = 0

\* open(tmp_path, "w") empties the file
Truncated == File(<<>>, 0, 0, NoneV, NoOp)

\* f.write(text) on a file opened before: the text goes over the beginning
\* of what the file holds, and what is longer than the text stays
write_text(file, content, size, snap, call) ==
    File(content, size,
         IF file.size + file.rest > size THEN file.size + file.rest - size ELSE 0,
         snap, call)

\* the tree a call leaves in memory: the cursor goes to the path of the call
\* (delete_child: stays at the root) and the call acts there
CycleMutate(entry, call) ==
    LET cf == entry.children_field
        g == IF call.op = "delete_child"
             THEN [ok |-> TRUE, t |-> DictTraversal(entry.data)]
             ELSE set_path_as_current(DictTraversal(entry.data), cf, call.path)
    IN IF ~g.ok THEN [ok |-> FALSE, t |-> g.t]
       ELSE IF call.op = "add_child" THEN [ok |-> TRUE, t |-> add_child(g.t, cf, call.item)]
       ELSE IF call.op = "modify" THEN [ok |-> TRUE, t |-> modify(g.t, cf, call.changes)]
       ELSE delitem(g.t, cf, call.path)

Step(p, rec) == cycle' = [cycle EXCEPT !.procs[p] = rec]

CycleFrame == UNCHANGED <<walk, execVars, reconVars, matchVars, cursorVars>>

\* entry = storage.get_tree(tree_id); a store file that does not parse makes
\* the call raise
CycleLoad(p) ==
    /\ cycle.procs[p].pc = "idle"
    /\ now <= MaxSaves
    /\ IF Readable(cycle.file)
       THEN \E call \in CycleCalls :
               Step(p, [IdleCycle EXCEPT !.pc = "loaded", !.call = call,
                                         !.entry = <<storage_get_tree(store, CycleId)>>])
       ELSE Step(p, [IdleCycle EXCEPT !.pc = "raised"])
    /\ UNCHANGED <<store, now, last>>
    /\ CycleFrame

\* the change in memory and _validate_tree
CycleChange(p) ==
    LET rec == cycle.procs[p]
        entry == rec.entry[1]
        r == CycleMutate(entry, rec.call)
        d == TraversalData(r.t)
    IN /\ rec.pc = "loaded"
       /\ IF r.ok /\ validate_tree(entry, d)
          THEN Step(p, [rec EXCEPT !.pc = "changed", !.d = d])
          ELSE Step(p, [rec EXCEPT !.pc = "raised"])
       /\ UNCHANGED <<store, now, last>>
       /\ CycleFrame

\* save_tree up to the write: now = _utc_now(), the existing entry is read
\* and the new entry made
CycleRead(p) ==
    LET rec == cycle.procs[p]
        entry == rec.entry[1]
    IN /\ rec.pc = "changed"
       /\ IF Readable(cycle.file)
          THEN Step(p, [rec EXCEPT !.pc = "read",
                                   !.out = storage_save_tree(store, now, rec.d,
                                               entry.children_field, entry.label_field,
                                               CycleId, entry.schema)])
          ELSE Step(p, [rec EXCEPT !.pc = "raised"])
       /\ now' = now + 1
       /\ UNCHANGED <<store, last>>
       /\ CycleFrame

\* tmp_path.write_text, first part: the temporary file is opened for
\* writing, which makes it when it is missing and empties it when it is there
CycleOpen(p) ==
    /\ cycle.procs[p].pc = "read"
    /\ cycle' = [cycle EXCEPT !.procs[p].pc = "open", !.procs[p].fd = "tmp",
                              !.tmp = Truncated]
    /\ UNCHANGED <<store, now, last>>
    /\ CycleFrame

\* tmp_path.write_text, second part: the text is written into the open file
\* and the file closed.  The open file is the temporary file, or the store
\* file when the other caller has moved it there, or a file without a name
\* when the store file has been replaced once more
CycleWrite(p) ==
    LET rec == cycle.procs[p]
        snap == rec.entry[1].data
        size == SizeOf(rec.d)
    IN /\ rec.pc = "open"
       /\ IF rec.fd = "tmp"
          THEN /\ cycle' = [cycle EXCEPT !.procs[p].pc = "written", !.procs[p].fd = "none",
                                         !.tmp = write_text(cycle.tmp, rec.out, size, snap,
                                                            rec.call)]
               /\ UNCHANGED <<store, last>>
          ELSE IF rec.fd = "store"
          THEN /\ cycle' = [cycle EXCEPT !.procs[p].pc = "written", !.procs[p].fd = "none",
                                         !.file = write_text(cycle.file, <<>>, size, NoneV,
                                                             NoOp)]
               /\ store' = rec.out
               /\ last' = [op |-> "write", proc |-> p, snap |-> snap, call |-> rec.call]
          ELSE /\ cycle' = [cycle EXCEPT !.procs[p].pc = "written", !.procs[p].fd = "none"]
               /\ UNCHANGED <<store, last>>
       /\ UNCHANGED now
       /\ CycleFrame

\* the file a caller has open after the temporary file was moved over the
\* store file
Moved(fd) == IF fd = "tmp" THEN "store" ELSE IF fd = "store" THEN "orphan" ELSE fd

\* tmp_path.replace(path): the temporary file becomes the store file; when
\* the other caller has moved it away already, the call raises
\* FileNotFoundError
CycleReplace(p) ==
    LET rec == cycle.procs[p]
    IN /\ rec.pc = "written"
       /\ IF cycle.tmp.exists
          THEN /\ store' = IF cycle.tmp.size > 0 THEN cycle.tmp.content ELSE store
               /\ cycle' = [tmp |-> NoTmp,
                            file |-> File(<<>>, cycle.tmp.size, cycle.tmp.rest, NoneV, NoOp),
                            procs |-> [q \in Procs |->
                                        IF q = p THEN [rec EXCEPT !.pc = "done"]
                                        ELSE [cycle.procs[q] EXCEPT !.fd = Moved(@)]]]
               /\ last' = [op |-> "replace", proc |-> p, snap |-> cycle.tmp.snap,
                           call |-> cycle.tmp.call]
          ELSE /\ Step(p, [rec EXCEPT !.pc = "raised"])
               /\ UNCHANGED <<store, last>>
       /\ UNCHANGED now
       /\ CycleFrame

\* the caller has its answer and may start another cycle
CycleReturn(p) ==
    /\ cycle.procs[p].pc \in {"done", "raised"}
    /\ now <= MaxSaves
    /\ Step(p, IdleCycle)
    /\ UNCHANGED <<store, now, last>>
    /\ CycleFrame

InitCycle ==
    /\ \E e \in EditInits :
          /\ store = storage_save_tree(<<>>, 0, e.d, sections, e.lf, CycleId, e.schema)
          /\ cycle = [tmp |-> NoTmp,
                      file |-> File(<<>>, SizeOf(e.d), 0, NoneV, NoOp),
                      procs |-> [p \in Procs |-> IdleCycle]]
    /\ now = 1
    /\ last = NoMove
    /\ walk = -1
    /\ CursorIdle
    /\ ExecIdle /\ ReconIdle /\ MatchIdle

Load == \E p \in Procs : CycleLoad(p)
Change == \E p \in Procs : CycleChange(p)
SaveRead == \E p \in Procs : CycleRead(p)
OpenTmp == \E p \in Procs : CycleOpen(p)
WriteTmp == \E p \in Procs : CycleWrite(p)
Replace == \E p \in Procs : CycleReplace(p)
Return == \E p \in Procs : CycleReturn(p)

NextCycle == Load \/ Change \/ SaveRead \/ OpenTmp \/ WriteTmp \/ Replace \/ Return

SpecCycle == InitCycle /\ [][NextCycle]_vars

(***************************************************************************)
(* Claims about the query engine                                           *)
(***************************************************************************)
\* the FlatKeys of flatten(data) whose key matches the pattern of the i-th
\* declared pattern-key and whose value satisfies its operator
SatKeys(i) ==
    LET flat == flatten_dict(data)
        q_key == query[i][1]
    IN  {k \in Keys(flat) :
            /\ match(q_key_main(q_key), k, support_wildcards, support_regex) = "true"
            /\ operate(q_operator(q_key), k, flat, query[i][2]) = "true"}

AllSatisfied == \A i \in 1..Len(query) : SatKeys(i) # {}

UnionOfMatches ==
    [k \in UNION {SatKeys(i) : i \in 1..Len(query)} |-> Get(flatten_dict(data), k)]

LastSegment(k) == Split(k, field_separator)[Len(Split(k, field_separator))]

\* C3: for every FlatKey k of flatten_dict(d), reconstruct_item(k, d)
\* returns without error the mapping that directly holds the leaf: a mapping
\* whose own keys include the last segment of k and that maps it to the leaf.
C3_RoundTrip ==
    rres[1] # "idle" =>
        /\ rres[1] = "ok"
        /\ IsDict(rres[2])
        /\ HasKey(Payload(rres[2]), LastSegment(rkey))
        /\ Get(Payload(rres[2]), LastSegment(rkey)) = Get(flatten_dict(data), rkey)

RegexAccepts(p, k) == RegexMatch(Strip(p, "/"), k)

UnknownOperatorKeys ==
    {i \in 1..Len(query) : q_operator(query[i][1]) \notin OPERATOR_MAP}

\* C11: a query with a pattern-key whose operator suffix is not a name of the
\* operator table raises no error and returns the empty map, whatever its
\* other pattern-keys match
C11_UnknownOperator ==
    UnknownOperatorKeys # {} =>
       /\ pc # "raised"
       /\ pc = "done" => result = <<>>

\* C12: execute raises for no data and no query whose operators all belong
\* to the operator table: it returns a map, the empty one when a pattern-key
\* is unsatisfied
C12_NeverRaises ==
    UnknownOperatorKeys = {} =>
       /\ pc # "raised"
       /\ (pc = "done" /\ ~AllSatisfied) => result = <<>>

\* the FlatKeys of flatten(data) whose value equals v
KeysWithValue(v) ==
    {k \in Keys(flatten_dict(data)) : Get(flatten_dict(data), k) = v}

\* C13: the query {'*': v}, and the query {'/.*/': v}, returns exactly the
\* FlatKey -> value pairs of flatten(data) whose value equals v, the empty
\* map when there is none, and does not raise
C13_WildcardEq ==
    (Len(query) = 1 /\ query[1][1] \in {<<"*">>, <<"/", ".", "*", "/">>}) =>
       /\ pc # "raised"
       /\ pc = "done" =>
             /\ Keys(result) = KeysWithValue(query[1][2])
             /\ \A k \in Keys(result) : Get(result, k) = query[1][2]

\* {'*': 1} has returned one of the two leaves of the data, the one that is 1
C13_Witness ==
    /\ pc = "done"
    /\ Len(query) = 1 /\ query[1][1] = <<"*">> /\ query[1][2] = IntV(1)
    /\ Len(result) = 1
    /\ Len(flatten_dict(data)) = 2

\* the leaves of a mapping, each with its full key: the key of a nested
\* field is the key of its parent, the separator and the field name, that of
\* the i-th element of a list of mappings has the index suffix
RECURSIVE LeafList(_, _, _)
RECURSIVE LeafListOfList(_, _, _)
LeafList(p, parent_key, top) ==
    IF Len(p) = 0 THEN <<>>
    ELSE LET k == IF top THEN p[1][1] ELSE parent_key \o <<field_separator>> \o p[1][1]
             v == p[1][2]
         IN (IF IsDict(v) THEN LeafList(Payload(v), k, FALSE)
             ELSE IF IsList(v) /\ AllDicts(Payload(v)) THEN LeafListOfList(Payload(v), k, 1)
             ELSE << <<k, v>> >>)
            \o LeafList(Tail(p), parent_key, top)

LeafListOfList(s, k, i) ==
    IF i > Len(s) THEN <<>>
    ELSE LeafList(Payload(s[i]), k \o list_index_indicator(i - 1), FALSE)
         \o LeafListOfList(s, k, i + 1)

\* C14: flatten_dict(d) has exactly one entry per leaf of d, under the full
\* key of the leaf and with its value
C14_OneEntryPerLeaf ==
    pc = "flat" =>
       LET leaves == LeafList(Payload(data), <<>>, TRUE)
       IN /\ Len(flattened_data) = Len(leaves)
          /\ SeqRange(flattened_data) = SeqRange(leaves)

(***************************************************************************)
(* Claims about the stored tree and its tools                              *)
(***************************************************************************)
StoredData(id) == store[id].data
StoredCursor(id) == store[id].cursor_path

MutationOps == {"add_child", "modify_item", "delete_child"}
NavigationOps == {"set_cursor", "next_item", "prev_item"}

\* what the mutation call c, which returned, must have made of the tree old
MutationShows(c, old, new) ==
    /\ c.op = "modify_item" =>
          /\ ValidPath(new, sections, c.path)
          /\ ItemAt(new, sections, c.path)
                = DictV(Update(Payload(ItemAt(old, sections, c.path)), Payload(c.arg)))
    /\ c.op = "add_child" =>
          /\ ValidPath(new, sections, c.path)
          /\ ChildrenOf(ItemAt(new, sections, c.path), sections)
                = Append(ChildrenOf(ItemAt(old, sections, c.path), sections), c.arg)
    /\ c.op = "delete_child" =>
          /\ ValidPath(new, sections, AllButLast(c.path))
          /\ ChildrenOf(ItemAt(new, sections, AllButLast(c.path)), sections)
                = RemoveAt(ChildrenOf(ItemAt(old, sections, AllButLast(c.path)), sections),
                           c.path[Len(c.path)] + 1)

\* C5: a mutation made through a cursor moved to the path p is at once in the
\* tree read from the root: when modify_item, add_child or delete_child
\* returns, the stored tree has, at p, the changed fields, the appended child
\* as the last child, or one child less, whatever the depth of p
C5_MutationVisible ==
    [][(last'.op \in MutationOps /\ last'.ok) =>
          MutationShows(last', store[last'.tree_id].data, store'[last'.tree_id].data)]_vars

\* modify_item has changed the title of the node three levels below the root
C5_Witness ==
    /\ last.op = "modify_item" /\ last.ok /\ Len(last.path) = 3
    /\ Get(Payload(ItemAt(StoredData(last.tree_id), sections, last.path)), title)
          = StrV(<<"x">>)

C8_NextThenPrev ==
    /\ \A id \in DOMAIN store :
          \A q \in SeqRange(PreOrder(StoredData(id), sections)), so \in BOOLEAN :
             NextPath(StoredData(id), sections, q, so) # NonePath =>
                PrevPath(StoredData(id), sections,
                         NextPath(StoredData(id), sections, q, so), so) = q
    /\ (last.op = "prev_item" /\ last.origin # NonePath) =>
          /\ last.ok
          /\ last.ret_path = last.origin
          /\ StoredCursor(last.tree_id) = last.origin

\* next_item took the stored cursor from the second child to its first
\* child, and prev_item has brought it back
C8_Witness ==
    /\ last.op = "prev_item" /\ last.ok /\ ~last.sibling_only
    /\ last.origin = <<1>> /\ last.cursor_before = <<1, 0>>
    /\ StoredCursor(last.tree_id) = <<1>>

\* C9: next_item calls made in succession from the root walk the tree in
\* pre-order: the k-th call returns the k-th node after the root with its
\* path and stores that path, the call after fewer than all nodes returns the
\* next one, and only the call after the last node finds no next item
C9_WalkInPreOrder ==
    \A id \in DOMAIN store :
       walk >= 0 =>
          LET order == PreOrder(StoredData(id), sections)
              r == tool_next_item(store, id, FALSE)
          IN /\ walk + 1 <= Len(order)
             /\ StoredCursor(id) = order[walk + 1]
             /\ walk >= 1 =>
                   /\ last.op = "next_item" /\ last.ok
                   /\ last.ret_path = order[walk + 1]
                   /\ last.item = ItemAt(StoredData(id), sections, order[walk + 1])
             /\ walk + 1 < Len(order) =>
                   /\ r.ok
                   /\ r.path = order[walk + 2]
                   /\ r.store[id].cursor_path = order[walk + 2]
             /\ walk + 1 = Len(order) => r.ok /\ r.path = NonePath

\* the sixth call in succession has returned the last node of the demo tree
C9_Witness ==
    /\ walk = 6
    /\ last.op = "next_item" /\ last.ret_path = <<2>>
    /\ \A id \in DOMAIN store : store[id].count = 7

\* C24: after any sequence of tool operations on a stored tree the stored
\* cursor_path is a valid path of the stored data, so that the next
\* next_item or prev_item call can position the cursor on it (a cursor_path
\* of None, which next_item stores at the end of the tree, makes the next
\* call start at the root)
C24_CursorValid ==
    \A tree_id \in DOMAIN store :
       /\ get_traversal(store, tree_id, store[tree_id].cursor_path).ok
       /\ store[tree_id].cursor_path # NonePath =>
             ValidPath(store[tree_id].data, store[tree_id].children_field,
                       store[tree_id].cursor_path)

(***************************************************************************)
(* Claims about the cursor in memory                                       *)
(***************************************************************************)
CursorNavigationOps == {"set_path_as_current", "move_to_next_item", "move_to_prev_item",
                        "iterate"}

\* the node the path of the cursor denotes in its root
NodeAtCursor == ItemAt(t_root, sections, t_path)

\* the root keys, each with the value the node n has for it, None if it has none
ViewThrough(n) ==
    DictV([i \in 1..Len(Payload(t_root)) |->
              <<Payload(t_root)[i][1],
                IF HasKey(Payload(n), Payload(t_root)[i][1])
                THEN Get(Payload(n), Payload(t_root)[i][1]) ELSE NoneV>>])

C10_SetPathAtomic ==
    [][last'.op = "set_path_as_current" =>
          /\ t_root' = t_root
          /\ IF ValidPath(t_root, sections, last'.path)
             THEN /\ last'.ok
                  /\ t_path' = last'.path
                  /\ t_current' = ItemAt(t_root, sections, last'.path)
             ELSE /\ ~last'.ok
                  /\ t_path' = t_path
                  /\ t_current' = t_current]_vars

\* a path whose fourth index is out of range has been refused with the cursor
\* on the first grandchild, where it still is
C10_Witness ==
    /\ last.op = "set_path_as_current" /\ ~last.ok
    /\ last.path = <<1, 1, 0, 0>>
    /\ t_path = <<1, 0>>
    /\ t_current = ItemAt(t_root, sections, <<1, 0>>)

\* C15: a new_root scope gives the outer context back however it ends: the
\* root and path held when the scope was entered are kept while calls inside
\* the scope move its cursor, and when the scope ends, at the end of the
\* block or by the error of a call inside it, they are the root and path of
\* the cursor again
C15_ScopeRestores ==
    [][/\ last'.op = "new_root" =>
             /\ scope' = <<[root |-> t_root, path |-> t_path]>>
             /\ t_root' = t_current /\ t_path' = <<>>
       /\ (scope # <<>> /\ last'.op # "exit_root") => scope' = scope
       /\ last'.op = "exit_root" =>
             /\ scope' = <<>>
             /\ t_root' = scope[1].root
             /\ t_path' = scope[1].path
             /\ t_current' = ItemAt(scope[1].root, sections, scope[1].path)]_vars

\* a scope entered on the second grandchild has ended by an error and the
\* cursor is on the second grandchild of the demo tree again
C15_Witness ==
    /\ last.op = "exit_root" /\ ~last.ok
    /\ scope = <<>>
    /\ t_path = <<1, 1>>
    /\ Get(Payload(t_root), title) = StrV(<<"r">>)
    /\ Get(Payload(t_current), title) = StrV(<<"g", "2">>)

(***************************************************************************)
(* Claims about the tools that search and edit a stored tree               *)
(***************************************************************************)
LabelOf(node, lf) ==
    IF IsDict(node) /\ HasKey(Payload(node), lf) THEN Get(Payload(node), lf) ELSE NoneV

\* p takes, at each level, the first child whose label is the title of that
\* level
FirstMatches(root, cf, lf, titles, p) ==
    /\ Len(p) = Len(titles)
    /\ ValidPath(root, cf, p)
    /\ \A k \in 1..Len(p) :
          LET kids == ChildrenOf(ItemAt(root, cf, SubSeq(p, 1, k - 1)), cf)
          IN /\ LabelOf(kids[p[k] + 1], lf) = StrV(titles[k])
             /\ \A j \in 1..p[k] : LabelOf(kids[j], lf) # StrV(titles[k])

\* C16: find_paths on a tree stored with a label field returns, for a
\* sequence of titles, the one pair (node, path) of the path that takes at
\* each level the first child whose label is the next title; when at some
\* level no child has the title it returns the empty list, and it does not
\* raise; the store is as it was
C16_FindPaths ==
    [][(last'.op = "find_paths" /\ Len(store[last'.tree_id].label_field) > 0) =>
          LET e == store[last'.tree_id]
              chains == {p \in SeqRange(PreOrder(e.data, e.children_field)) :
                            FirstMatches(e.data, e.children_field, e.label_field,
                                         last'.arg, p)}
          IN /\ last'.ok
             /\ store' = store
             /\ chains = {} => last'.found = <<>>
             /\ \A p \in chains :
                   last'.found = << <<ItemAt(e.data, e.children_field, p), p>> >>]_vars

\* the titles c2, g1 have led to the first child of the second child
C16_Witness ==
    /\ last.op = "find_paths" /\ last.ok
    /\ last.arg = << <<"c", "2">>, <<"g", "1">> >>
    /\ last.found = << <<Leaf(<<"g", "1">>), <<1, 0>> >> >>

ChildListOps == {"add_child", "insert_child", "replace_child", "delete_child"}

\* the fields of a node other than its children list, in order
OwnFields(node, cf) == SelectSeq(Payload(node), LAMBDA kv : kv[1] # cf)

\* the path of the node whose children list the call c works on
ListOwner(c) == IF c.op \in {"add_child", "insert_child"} THEN c.path ELSE AllButLast(c.path)

\* the position in that list, counted from 1, that the call c works on
ListPosition(c, kids) ==
    CASE c.op = "add_child" -> Len(kids) + 1
      [] c.op = "insert_child" -> c.index + 1
      [] OTHER -> c.path[Len(c.path)] + 1

\* what the call c has made of the children list kids
ListChanged(c, kids, kids2) ==
    LET i == ListPosition(c, kids)
    IN /\ c.op \in {"add_child", "insert_child"} =>
             /\ Len(kids2) = Len(kids) + 1
             /\ kids2[i] = c.arg
             /\ \A j \in 1..Len(kids) : kids2[IF j < i THEN j ELSE j + 1] = kids[j]
       /\ c.op = "replace_child" =>
             /\ Len(kids2) = Len(kids)
             /\ kids2[i] = c.arg
             /\ \A j \in 1..Len(kids) : j # i => kids2[j] = kids[j]
       /\ c.op = "delete_child" =>
             /\ Len(kids2) = Len(kids) - 1
             /\ \A j \in 1..Len(kids) : j # i => kids2[IF j < i THEN j ELSE j - 1] = kids[j]

\* the nodes from the root down to the owner of the list keep their own
\* fields, and those above the owner keep every child that is not on the way
\* to it
OutsideKept(old, new, cf, owner) ==
    \A k \in 0..Len(owner) :
       LET q == SubSeq(owner, 1, k)
       IN /\ ValidPath(new, cf, q)
          /\ OwnFields(ItemAt(new, cf, q), cf) = OwnFields(ItemAt(old, cf, q), cf)
          /\ k < Len(owner) =>
                LET kids == ChildrenOf(ItemAt(old, cf, q), cf)
                    kids2 == ChildrenOf(ItemAt(new, cf, q), cf)
                IN /\ Len(kids2) = Len(kids)
                   /\ \A j \in 1..Len(kids) : j # owner[k + 1] + 1 => kids2[j] = kids[j]

\* C17: add_child, insert_child, replace_child and delete_child change one
\* children list at one position: the new node is the last child, or is at
\* the index with the later children moved up by one, or takes the place of
\* the child at the index, or the addressed child is gone; the list is longer
\* by 1, 1, 0 and -1; every other child keeps its content and its order, and
\* every node outside the list is as it was
C17_ChildListFrame ==
    [][(last'.op \in ChildListOps /\ last'.ok) =>
          LET e == store[last'.tree_id]
              new == store'[last'.tree_id].data
              owner == ListOwner(last')
          IN /\ ValidPath(e.data, e.children_field, owner)
             /\ OutsideKept(e.data, new, e.children_field, owner)
             /\ ListChanged(last',
                            ChildrenOf(ItemAt(e.data, e.children_field, owner), e.children_field),
                            ChildrenOf(ItemAt(new, e.children_field, owner), e.children_field))]_vars

\* insert_child has put a node between the two children of the second child
C17_Witness ==
    /\ last.op = "insert_child" /\ last.ok /\ last.path = <<1>> /\ last.index = 1
    /\ StoredData(last.tree_id)
          = Node(<<"r">>,
                 << Leaf(<<"c", "1">>),
                    Node(<<"c", "2">>,
                         << Leaf(<<"g", "1">>), Leaf(<<"n">>), Leaf(<<"g", "2">>) >>),
                    Leaf(<<"c", "3">>) >>)

\* the tool that makes the op of a batch on its own
SingleTool(st, clock, tree_id, op) ==
    CASE op.op = "add_child" -> tool_add_child(st, clock, tree_id, op.path, op.item)
      [] op.op = "modify" -> tool_modify_item(st, clock, tree_id, op.path, op.changes)
      [] op.op = "replace_child" -> tool_replace_child(st, clock, tree_id, op.path, op.item)
      [] op.op = "delete_child" -> tool_delete_child(st, clock, tree_id, op.path)
      [] OTHER -> Raised(st)

\* the ops from the i-th on made one call after the other, each on the store
\* the call before has left
RECURSIVE OneByOne(_, _, _, _, _)
OneByOne(st, clock, tree_id, ops, i) ==
    IF i > Len(ops) THEN [ok |-> TRUE, store |-> st]
    ELSE LET r == SingleTool(st, clock, tree_id, ops[i])
         IN IF ~r.ok THEN [ok |-> FALSE, store |-> st]
            ELSE OneByOne(r.store, clock + 1, tree_id, ops, i + 1)

\* C18: apply_tree_ops makes the ops of the batch in list order, the path of
\* each op counted from the root of the tree as the ops before it have left
\* it, so that the tree it stores is the tree that the same ops leave when
\* each is made by its own tool call, one after the other; and it stores the
\* tree once, at the end
C18_BatchInOrder ==
    [][(last'.op = "apply_tree_ops" /\ last'.ok) =>
          LET id == last'.tree_id
              each == OneByOne(store, now, id, last'.arg, 1)
          IN /\ each.ok
             /\ store'[id].data = each.store[id].data
             /\ store'[id].count = count_nodes(each.store[id].data, store[id].children_field)
             /\ store'[id].updated_at = now
             /\ now' = now + 1]_vars

\* add_child at the root, modify at [1] and delete_child at [0] have made of
\* the children c1, c2, c3 the children c2 with its new title, c3 and the
\* new node
C18_Witness ==
    /\ last.op = "apply_tree_ops" /\ last.ok /\ Len(last.arg) = 3
    /\ last.arg[3].op = "delete_child"
    /\ StoredData(last.tree_id)
          = Node(<<"r">>,
                 << Node(<<"x">>, << Leaf(<<"g", "1">>), Leaf(<<"g", "2">>) >>),
                    Leaf(<<"c", "3">>),
                    Leaf(<<"n">>) >>)

EditOps == ChildListOps \cup {"modify_item", "apply_tree_ops"}

\* C19: an editing tool writes a tree only when the tree passes validation:
\* the tree it has stored when it returns satisfies the structure rules and
\* the schema of the entry, and when it raises, as it does for a tree that
\* violates them, the store is as before the call, with the same data,
\* count, top_labels and updated_at; after a call that raised, a valid
\* edit of the same tree returns and is stored
C19_ValidationGates ==
    [][last'.op \in EditOps =>
          LET id == last'.tree_id
              again == tool_modify_item(store', now', id, <<>>, << <<title, StrV(<<"y">>)>> >>)
          IN /\ last'.ok => validate_tree(store'[id], store'[id].data)
             /\ ~last'.ok =>
                   /\ store' = store
                   /\ now' = now
                   /\ again.ok
                   /\ Get(Payload(again.store[id].data), title) = StrV(<<"y">>)]_vars

\* add_child of a node without a title has raised on the tree whose schema
\* requires the title, and the entry is the one first saved
C19_Witness ==
    /\ last.op = "add_child" /\ ~last.ok /\ last.path = <<>>
    /\ last.arg = DictV(<< <<<<"k">>, IntV(1)>> >>)
    /\ store[last.tree_id].schema = RequiredSchema({title})
    /\ StoredData(last.tree_id) = Twin
    /\ store[last.tree_id].updated_at = 0

\* an op that apply_tree_ops rejects whatever the tree: a name that is not
\* supported, add_child or replace_child without an item dictionary,
\* replace_child or delete_child with an empty path, modify without changes
Malformed(op) ==
    \/ op.op \notin {"add_child", "modify", "replace_child", "delete_child"}
    \/ op.op \in {"add_child", "replace_child"} /\ Tag(op.item) # "dict"
    \/ op.op \in {"replace_child", "delete_child"} /\ Len(op.path) = 0
    \/ op.op = "modify" /\ Len(op.changes) = 0

\* C25: apply_tree_ops is atomic with respect to the store.  A batch with an
\* op that is rejected, or whose first op has a path out of range, raises;
\* a batch that raises, for an op or for the final validation, leaves the
\* store and the clock as they were, whatever its earlier ops did in memory;
\* and a batch changes the store only when it returns, every op of it being
\* one that succeeds as a call of its own
C25_BatchAtomic ==
    [][last'.op = "apply_tree_ops" =>
          LET id == last'.tree_id
              ops == last'.arg
              each == OneByOne(store, now, id, ops, 1)
          IN /\ (\E i \in 1..Len(ops) : Malformed(ops[i])) => ~last'.ok
             /\ (Len(ops) > 0 /\ ~ValidPath(store[id].data, store[id].children_field,
                                           ops[1].path)) => ~last'.ok
             /\ ~last'.ok => (store' = store /\ now' = now)
             /\ store' # store =>
                   /\ last'.ok
                   /\ each.ok
                   /\ \A i \in 1..Len(ops) : ~Malformed(ops[i])]_vars

\* the batch of add_child at the root and delete_child at [5] has raised:
\* the add succeeded in memory, and the stored tree is still the one first
\* saved, without the new child
C25_Witness ==
    /\ last.op = "apply_tree_ops" /\ ~last.ok /\ Len(last.arg) = 2
    /\ last.arg[1].op = "add_child" /\ last.arg[2].op = "delete_child"
    /\ ApplyOp(DictTraversal(StoredData(last.tree_id)), sections, last.arg[1]).ok
    /\ StoredData(last.tree_id) = Kin
    /\ store[last.tree_id].count = 6
    /\ store[last.tree_id].updated_at = 0

\* the positions of the root's direct children that carry the label field
Labelled(entry) ==
    LET kids == ChildrenOf(entry.data, entry.children_field)
    IN {i \in 1..Len(kids) : IsDict(kids[i]) /\ HasKey(Payload(kids[i]), entry.label_field)}

\* the k-th of a set of positions
NthOf(S, k) == CHOOSE i \in S : Cardinality({j \in S : j <= i}) = k

\* C26: in every reachable state of the store, after every mutation tool and
\* batch, the count of each entry is the number of nodes of its data, the
\* root included, and its top_labels are the labels of the root's direct
\* children that carry the label field, in child order
C26_MetadataInvariant ==
    \A id \in DOMAIN store :
       LET entry == store[id]
           kids == ChildrenOf(entry.data, entry.children_field)
       IN /\ entry.count = Len(PreOrder(entry.data, entry.children_field))
          /\ Len(entry.top_labels) = Cardinality(Labelled(entry))
          /\ \A k \in 1..Len(entry.top_labels) :
                entry.top_labels[k]
                   = Get(Payload(kids[NthOf(Labelled(entry), k)]), entry.label_field)

\* the batch of one add_child, one modify and one delete_child has been
\* stored: the count is the 6 of the tree first saved, and the top labels
\* are those of the new children
C26_Witness ==
    /\ last.op = "apply_tree_ops" /\ last.ok /\ Len(last.arg) = 3
    /\ StoredData(last.tree_id) # Kin
    /\ store[last.tree_id].count = 6
    /\ store[last.tree_id].top_labels = <<StrV(<<"x">>), StrV(<<"c", "3">>), StrV(<<"n">>)>>

(***************************************************************************)
(* Claims about saving again and about the stored cursor                   *)
(***************************************************************************)
SavingOps == {"save_tree", "add_child", "delete_child"}

\* C27: a save under an existing tree_id, directly or through a mutation
\* tool, keeps the created_at and the cursor_path of the entry and, when no
\* schema is passed, its schema, while data, count, top_labels and
\* updated_at are replaced; a save with no tree_id or with a tree_id that is
\* not stored makes an entry with cursor_path [] and created_at equal to
\* updated_at; no other entry is changed
C27_ResaveFrame ==
    [][(last'.op \in SavingOps /\ last'.ok) =>
          LET id == last'.id
              new == store'[id]
          IN /\ DOMAIN store' = DOMAIN store \cup {id}
             /\ \A other \in DOMAIN store \ {id} : store'[other] = store[other]
             /\ last'.tree_id = NoTreeId => id \notin DOMAIN store
             /\ new.updated_at = now
             /\ last'.op = "save_tree" => new.data = last'.d
             /\ new.count = Len(PreOrder(new.data, new.children_field))
             /\ Len(new.top_labels) = Len(ChildrenOf(new.data, new.children_field))
             /\ IF id \in DOMAIN store
                THEN /\ new.created_at = store[id].created_at
                     /\ new.cursor_path = store[id].cursor_path
                     /\ new.schema = IF last'.op = "save_tree" /\ last'.schema # NoneV
                                     THEN last'.schema ELSE store[id].schema
                     /\ last'.op # "save_tree" => new.data # store[id].data
                ELSE /\ new.created_at = new.updated_at
                     /\ new.cursor_path = <<>>
                     /\ new.schema = last'.schema]_vars

\* a tree with a schema whose cursor was moved to [0] has been saved again
\* under its id, with other data and no schema: the entry has the new data
\* and time, and the cursor, the schema and the creation time it had
C27_Witness ==
    /\ last.op = "save_tree" /\ last.ok /\ last.tree_id = "t1" /\ last.schema = NoneV
    /\ store["t1"].data = Bare
    /\ store["t1"].cursor_path = <<0>>
    /\ store["t1"].schema = RequiredSchema({title})
    /\ store["t1"].created_at = 0
    /\ store["t1"].updated_at = 1
    /\ store["t1"].count = 1

CursorOps == {"set_cursor", "next_item", "prev_item"}

\* C28: set_cursor, next_item and prev_item change only the cursor: the
\* entry keeps its data, children_field, label_field, schema, count,
\* top_labels, created_at and updated_at, and every other entry is as it
\* was; set_cursor with a path that is valid in the stored data stores the
\* path, and with a path that is not valid raises and leaves the stored
\* cursor_path unchanged
C28_CursorOnly ==
    [][last'.op \in CursorOps =>
          LET id == last'.id
          IN /\ DOMAIN store' = DOMAIN store
             /\ \A other \in DOMAIN store \ {id} : store'[other] = store[other]
             /\ \A k \in DOMAIN store[id] \ {"cursor_path"} : store'[id][k] = store[id][k]
             /\ now' = now
             /\ ~last'.ok => store' = store
             /\ last'.op = "set_cursor" =>
                   IF ValidPath(store[id].data, store[id].children_field, last'.path)
                   THEN last'.ok /\ store'[id].cursor_path = last'.path
                   ELSE ~last'.ok /\ store'[id].cursor_path = store[id].cursor_path]_vars

\* in a store of two trees set_cursor with the path [9] has raised, and the
\* cursor of the tree is where the set_cursor before it had put it
C28_Witness ==
    /\ last.op = "set_cursor" /\ ~last.ok /\ last.path = <<9>>
    /\ Cardinality(DOMAIN store) = 2
    /\ store[last.id].cursor_path = <<0>>

(***************************************************************************)
(* Claims about the store on disk                                          *)
(***************************************************************************)
\* the entries that list_trees() shows for the id
ListedFor(disk, id) ==
    {i \in 1..Len(disk_list_trees(disk, 0)) : disk_list_trees(disk, 0)[i].tree_id = id}

\* C20: in a store that is one file and in a store that is a directory,
\* get_tree with the id that save_tree returned gives the data, the children
\* field and the label field that were saved, and goes on giving them while
\* other trees are saved or deleted; list_trees shows one entry for every
\* tree that get_tree finds and none for any other id, and no entry holds
\* the data; delete_tree of a stored id returns deleted=true, after which
\* the id is not listed and get_tree raises KeyError; delete_tree of an id
\* that is not stored returns deleted=false and leaves the store as it was
C20_SaveGetRoundTrip ==
    /\ [](\A id \in IdPool :
             /\ Cardinality(ListedFor(store, id))
                   = IF disk_get_tree(store, id, TRUE).ok THEN 1 ELSE 0
             /\ \A i \in ListedFor(store, id) :
                   "data" \notin DOMAIN disk_list_trees(store, 0)[i])
    /\ [][/\ (last'.op = "save_tree" /\ last'.ok) =>
                LET got == disk_get_tree(store', last'.ret.tree_id, TRUE)
                IN /\ got.ok
                   /\ got.ret.tree_id = last'.ret.tree_id
                   /\ got.ret.data = last'.arg.d
                   /\ got.ret.children_field = sections
                   /\ got.ret.label_field = last'.arg.lf
                   /\ last'.tree_id # NoId => last'.ret.tree_id = last'.tree_id
                   /\ \A id \in IdPool \ {last'.ret.tree_id} :
                         disk_get_tree(store', id, TRUE) = disk_get_tree(store, id, TRUE)
          /\ last'.op = "delete_tree" =>
                /\ last'.ret.deleted = disk_get_tree(store, last'.tree_id, TRUE).ok
                /\ ~disk_get_tree(store', last'.tree_id, TRUE).ok
                /\ ListedFor(store', last'.tree_id) = {}
                /\ ~last'.ret.deleted => store' = store
                /\ \A id \in IdPool \ {last'.tree_id} :
                      disk_get_tree(store', id, TRUE) = disk_get_tree(store, id, TRUE)]_vars

\* in a directory store that held two trees, the tree with the id made up by
\* save_tree has been deleted and the other is the one still listed
C20_Witness ==
    /\ last.op = "delete_tree" /\ last.ret.deleted /\ last.tree_id = Uuid(0)
    /\ is_dir_store(store) /\ store.suffix = json_suffix
    /\ ~disk_get_tree(store, Uuid(0), TRUE).ok
    /\ Len(disk_list_trees(store, 0)) = 1
    /\ disk_get_tree(store, <<"a">>, TRUE).ok
    /\ disk_get_tree(store, <<"a">>, TRUE).ret.data = Kin
(***************************************************************************)
(* Claims about two callers on one stored tree                             *)
(***************************************************************************)
\* the tree that one call, run alone on a store that holds the snapshot,
\* leaves in the store
CycleResult(snap, call) ==
    LET st == [store EXCEPT ![CycleId].data = snap]
        r == IF call.op = "add_child"
             THEN tool_add_child(st, 0, CycleId, call.path, call.item)
             ELSE IF call.op = "modify"
             THEN tool_modify_item(st, 0, CycleId, call.path, call.changes)
             ELSE tool_delete_child(st, 0, CycleId, call.path)
    IN r.store[CycleId].data

BothDone == \A p \in Procs : cycle.procs[p].pc = "done"

\* C21: each load/mutate/save cycle is last-writer-wins.  The store file
\* always holds one whole tree, never a mix of two writes: the tree is the
\* one the store began with or the one that a single cycle computed from the
\* snapshot it loaded.  When both cycles have completed, it is the tree of
\* the cycle that saved last.
C21_LastWriterWins ==
    /\ Readable(cycle.file)
    /\ last.op # "none" => store[CycleId].data = CycleResult(last.snap, last.call)
    /\ BothDone =>
          /\ last.snap = cycle.procs[last.proc].entry[1].data
          /\ last.call = cycle.procs[last.proc].call

(***************************************************************************)
(* Claims about the store as the CLI finds it                              *)
(***************************************************************************)
\* the files *.json of the directory that parse as a JSON object containing
\* tree_id
ValidFiles(disk) ==
    {f \in DOMAIN disk.files :
        /\ SubSeq(f, Len(f) - 4, Len(f)) = <<".", "j", "s", "o", "n">>
        /\ "tree_id" \in DOMAIN disk.files[f]}

\* min(limit, n), limit 0 standing for no limit
Truncation(limit, n) == IF limit = 0 \/ limit > n THEN n ELSE limit

\* C22: in a directory store list_trees returns one entry for each *.json
\* file that parses as a JSON object containing tree_id: as many entries as
\* there are such files, each tree_id as often as files hold it, each entry
\* the object of a file without its data and schema; files that do not parse and objects without tree_id are
\* passed over, and no file is changed; the entries are ordered by
\* updated_at, the newest first, and cut to limit when a limit is given
C22_ListSkipsCorrupt ==
    [][(last'.op = "list_trees" /\ is_dir_store(store)) =>
          LET ret == last'.ret
              all == disk_list_trees(store, 0)
          IN /\ last'.ok
             /\ store' = store
             /\ Len(ret) = Truncation(last'.arg, Cardinality(ValidFiles(store)))
             /\ Len(all) = Cardinality(ValidFiles(store))
             /\ \A f \in ValidFiles(store) :
                   Cardinality({i \in 1..Len(all) : all[i].tree_id = store.files[f].tree_id})
                      = Cardinality({g \in ValidFiles(store) :
                                        store.files[g].tree_id = store.files[f].tree_id})
             /\ \A i \in 1..Len(ret) :
                   /\ ret[i] = all[i]
                   /\ "data" \notin DOMAIN ret[i]
                   /\ \E f \in ValidFiles(store) :
                         /\ DOMAIN ret[i] = DOMAIN store.files[f] \ {"data", "schema"}
                         /\ \A k \in DOMAIN ret[i] : ret[i][k] = store.files[f][k]
             /\ \A i \in 1..Len(ret), j \in 1..Len(ret) :
                   (i < j /\ "updated_at" \in DOMAIN ret[i] /\ "updated_at" \in DOMAIN ret[j])
                      => ret[i].updated_at >= ret[j].updated_at
             /\ \A i \in 1..Len(ret), j \in 1..Len(ret) :
                   (i < j /\ "updated_at" \notin DOMAIN ret[i])
                      => "updated_at" \notin DOMAIN ret[j]]_vars

\* a directory with two saved trees, a file that is no JSON and an object
\* without tree_id has been listed without a limit: two entries, the tree
\* saved later first
C22_Witness ==
    /\ last.op = "list_trees" /\ last.arg = 0
    /\ is_dir_store(store)
    /\ FileName(<<"c">>) \in store.bad
    /\ FileName(<<"m">>) \in DOMAIN store.files
    /\ Len(last.ret) = 2
    /\ \A i \in 1..2 : "updated_at" \in DOMAIN last.ret[i]
    /\ last.ret[1].updated_at > last.ret[2].updated_at

\* the names of the directory and the ids of the store file
Names(disk) ==
    IF is_dir_store(disk) THEN DOMAIN disk.files \cup disk.bad
    ELSE DOMAIN disk.trees \cup disk.bad

\* what is under a name that is an object
ObjectAt(disk, n) == IF is_dir_store(disk) THEN disk.files[n] ELSE disk.trees[n]

\* the invalid entries: in a directory the files *.json that do not parse as
\* a JSON object or lack tree_id; in a store file the entries that are no
\* object or lack tree_id
Invalid(disk) ==
    {n \in Names(disk) :
        /\ is_dir_store(disk) => SubSeq(n, Len(n) - 4, Len(n)) = <<".", "j", "s", "o", "n">>
        /\ n \in disk.bad \/ "tree_id" \notin DOMAIN ObjectAt(disk, n)}

\* prune has removed the invalid entries of the store it found, and nothing
\* else: it reports their number, a validate after it reports no errors and
\* a second prune removes nothing
PruneHolds(before, after, report) ==
    /\ Names(after) = Names(before) \ Invalid(before)
    /\ \A n \in Names(after) : ObjectAt(after, n) = ObjectAt(before, n)
    /\ report.removed = Cardinality(Invalid(before))
    /\ cli_validate(after).errors = {}
    /\ cli_prune(after).report.removed = 0
    /\ cli_prune(after).disk = after

\* validate has left the store as it was and exits with code 1 iff it
\* reports errors
ValidateHolds(before, after, report, exit_ok) ==
    /\ after = before
    /\ exit_ok <=> report.errors = {}

\* C23, as claimed: prune removes exactly the invalid entries, reports their
\* number and leaves every valid entry unchanged, so that a validate after
\* prune reports no errors and a second prune removes nothing; validate
\* never modifies the store and exits with code 1 iff it reports errors
C23_Original ==
    [][/\ last'.op = "prune" => PruneHolds(store, store', last'.ret)
       /\ last'.op = "validate" => ValidateHolds(store, store', last'.ret, last'.ok)]_vars

\* C23, amended: the same for a store that loads (a directory, or a store
\* file that parses); for a store file that does not parse, prune removes
\* nothing, reports the error and exits with code 1, and a validate after
\* it reports the error still
C23_PruneRemovesInvalid ==
    [][/\ (last'.op = "prune" /\ ~Garbage(store)) =>
             /\ PruneHolds(store, store', last'.ret)
             /\ last'.ok
       /\ (last'.op = "prune" /\ Garbage(store)) =>
             /\ store' = store
             /\ last'.ret.removed = 0
             /\ ~last'.ok
             /\ cli_validate(store').errors # {}
       /\ last'.op = "validate" => ValidateHolds(store, store', last'.ret, last'.ok)]_vars

\* prune has removed the file that is no JSON and the object without
\* tree_id from a directory; the saved tree and the file not named *.json
\* are still there
C23_Witness ==
    /\ last.op = "prune" /\ last.ret.removed = 2
    /\ is_dir_store(store)
    /\ Len(disk_list_trees(store, 0)) = 1
    /\ <<"n", ".", "t", "x", "t">> \in DOMAIN store.files
    /\ disk_get_tree(store, <<"a">>, TRUE).ok

(***************************************************************************)
(* execute on nodes: fields that hold an empty list or an empty mapping,   *)
(* and pattern-keys that hold more than one '$'.                           *)
(***************************************************************************)
meta == <<"m", "e", "t", "a">>

KeysData == {
    Node(<<"r">>, <<>>),
    Node(<<"r">>, <<Node(<<"a">>, <<>>)>>),
    Node(<<"r">>, <<Leaf(<<"a">>)>>),
    Leaf(<<"r">>),
    DictV(<< <<title, StrV(<<"r">>)>>, <<meta, DictV(<<>>)>> >>),
    DictV(<< <<title, StrV(<<"r">>)>>, <<meta, DictV(<< <<sections, ListV(<<>>)>> >>)>> >>),
    DictV(<< <<meta, DictV(<<>>)>> >>),
    DictV(<< <<sections, ListV(<<>>)>> >>) }

KeysPatternSeq == <<
    <<"s", "e", "c", "t", "i", "o", "n", "s", "$", "e", "x", "i", "s", "t", "s">>,
    <<"m", "e", "t", "a", "$", "e", "x", "i", "s", "t", "s">>,
    <<"m", "e", "t", "a", ".", "s", "e", "c", "t", "i", "o", "n", "s", "$", "e", "x", "i", "s", "t", "s">>,
    <<"s", "e", "c", "t", "i", "o", "n", "s", "#", "0", ".", "s", "e", "c", "t", "i", "o", "n", "s", "$", "e", "x", "i", "s", "t", "s">>,
    <<"*", "$", "e", "x", "i", "s", "t", "s">>,
    <<"/", ".", "*", "/", "$", "e", "x", "i", "s", "t", "s">>,
    <<"t", "i", "t", "l", "e">>,
    <<"/", ".", "*", "e", "$", "/">>,
    <<"/", ".", "*", "e", "$", "/", "$", "e", "x", "i", "s", "t", "s">>,
    <<"t", "i", "t", "l", "e", "$", "e", "q", "$", "x">>,
    <<"t", "i", "t", "l", "e", "$", "$", "e", "q">>,
    <<"t", "i", "t", "l", "e", "$", "e", "x", "i", "s", "t", "s", "$", "z", "z">> >>

KeysValues == {StrV(<<"r">>), IntV(1)}

KeysQueries == ItemSeqs(KeysPatternSeq, KeysValues, 1, MaxQueryKeys)

InitKeys ==
    /\ data \in KeysData
    /\ query \in KeysQueries \ {<<>>}
    /\ support_wildcards = TRUE /\ support_regex = TRUE
    /\ pc = "start" /\ todo = <<>> /\ flattened_data = <<>>
    /\ matched_fields = <<>> /\ query_keys_matched = {} /\ result = <<>>
    /\ ReconIdle /\ MatchIdle
    /\ ToolIdle /\ CursorIdle

SpecKeys == InitKeys /\ [][NextExec]_vars

(***************************************************************************)
(* Claims about empty fields and about '$' in a pattern-key                *)
(***************************************************************************)
\* the flat paths of the fields of the mapping p that hold an empty list or
\* an empty mapping
RECURSIVE EmptyFields(_, _)
EmptyFields(p, parent) ==
    UNION { LET k == IF Len(parent) > 0 THEN parent \o <<".">> \o p[i][1] ELSE p[i][1]
                v == p[i][2]
            IN  IF v = DictV(<<>>) \/ v = ListV(<<>>) THEN {k}
                ELSE IF IsDict(v) THEN EmptyFields(Payload(v), k)
                ELSE IF IsList(v) /\ \A j \in 1..Len(Payload(v)) : IsDict(Payload(v)[j])
                THEN UNION { EmptyFields(Payload(Payload(v)[j]), k \o <<"#">> \o IntToStr(j - 1))
                             : j \in 1..Len(Payload(v)) }
                ELSE {}
            : i \in 1..Len(p) }

\* the flat key k is the field e or lies below it
Under(e, k) ==
    \/ k = e
    \/ /\ Len(k) > Len(e)
       /\ SubSeq(k, 1, Len(e)) = e
       /\ k[Len(e) + 1] \in {".", "#"}

\* C29: a field whose value is an empty list or an empty mapping gives no
\* flat key, neither itself nor below it, so no pattern-key matches it: a
\* pattern-key that names the field, whatever its operator (exists too), is
\* never matched and the query returns the empty mapping; a wildcard or a
\* regex with exists returns other fields only.
C29_EmptyFieldNoKey ==
    \A e \in EmptyFields(Payload(data), <<>>) :
        /\ pc # "start" =>
              /\ \A k \in Keys(flattened_data) \cup Keys(matched_fields) : ~Under(e, k)
              /\ \A q \in query_keys_matched : Split(q, "$")[1] # e
        /\ pc = "done" =>
              /\ \A k \in Keys(result) : ~Under(e, k)
              /\ (\E q \in Keys(query) : Split(q, "$")[1] = e) => result = <<>>

\* a node with a title and an empty children list was asked for
\* sections$exists: the flat form holds the title alone and nothing is
\* returned
C29_Witness ==
    /\ pc = "done"
    /\ data = Node(<<"r">>, <<>>)
    /\ Keys(query) = {<<"s", "e", "c", "t", "i", "o", "n", "s", "$", "e", "x", "i", "s", "t", "s">>}
    /\ Keys(flattened_data) = {title}
    /\ result = <<>>

\* the index of the first c in s, or 0
FirstAt(s, c) ==
    IF \E i \in 1..Len(s) : s[i] = c
    THEN CHOOSE i \in 1..Len(s) : s[i] = c /\ \A j \in 1..(i - 1) : s[j] # c
    ELSE 0

\* the text of a pattern-key before its first '$'
KeyPattern(k) == IF FirstAt(k, "$") = 0 THEN k ELSE SubSeq(k, 1, FirstAt(k, "$") - 1)

\* the text between the first '$' and the second, eq where there is no '$'
KeyOperator(k) ==
    IF FirstAt(k, "$") = 0 THEN op_eq
    ELSE LET rest == SubSeq(k, FirstAt(k, "$") + 1, Len(k))
         IN  IF FirstAt(rest, "$") = 0 THEN rest
             ELSE SubSeq(rest, 1, FirstAt(rest, "$") - 1)

\* the flat keys a pattern-key selects when it is read that way
KeyHits(flat, k, v) ==
    { f \in Keys(flat) : /\ match(KeyPattern(k), f, TRUE, TRUE) = "true"
                         /\ operate(KeyOperator(k), f, flat, v) = "true" }

\* C30: a pattern-key is cut at every '$': the pattern is the text before
\* the first '$' and the operator the text between the first '$' and the
\* second (eq where there is none); what follows a second '$' is ignored.
\* A pattern-key whose pattern holds a '$' (the end anchor of a regex) is
\* so evaluated with the cut pattern and the rest as operator name, and
\* matches nothing unless that name is an operator of the table.
C30_SplitAtEveryDollar ==
    pc = "done" =>
        /\ \A i \in 1..Len(query) :
              LET k == query[i][1]
                  hits == KeyHits(flattened_data, k, query[i][2])
              IN  /\ (k \in query_keys_matched) = (hits # {})
                  /\ hits \subseteq Keys(matched_fields)
                  /\ KeyOperator(k) \notin OPERATOR_MAP => k \notin query_keys_matched
        /\ Keys(matched_fields) =
              UNION { KeyHits(flattened_data, query[i][1], query[i][2]) : i \in 1..Len(query) }
        /\ \A f \in Keys(matched_fields) : Get(matched_fields, f) = Get(flattened_data, f)

\* title$eq$x has matched the title (the text after the second '$' is
\* ignored) while /.*e$/, a regex that matches the key title when it is
\* read whole, has matched nothing, so the query returns nothing
C30_Witness ==
    /\ pc = "done"
    /\ Keys(query) = {<<"/", ".", "*", "e", "$", "/">>, <<"t", "i", "t", "l", "e", "$", "e", "q", "$", "x">>}
    /\ query_keys_matched = {<<"t", "i", "t", "l", "e", "$", "e", "q", "$", "x">>}
    /\ Keys(matched_fields) = {title}
    /\ RegexMatch(<<".", "*", "e", "$">>, title)
    /\ result = <<>>

====
